---- MODULE Spec2Model ----
(***************************************************************************)
(* Sentinel microstructure monitor: the rolling window (CircularBuffer)    *)
(* and the scoring engine (AnalyticsEngine).                               *)
(*                                                                         *)
(* Numbers.  Tick fields are integers in fixed units: price in whole       *)
(* units, volumes and trade quantities in tenths, depth in units of which  *)
(* the largest finite number holds MaxNumber (the liquidity evaluator uses *)
(* depth only through ratios, so the unit does not change its results).    *)
(* Signal risks are compared and rounded exactly, as quotients of          *)
(* integers; the quotient 1/0 is Infinity and 0/0 is NaN.  Scores (raw,    *)
(* target, smoothed, previous) are fixed-point numbers in units of         *)
(* 1/Scale; the exponential smoothing rounds its result to the nearest     *)
(* unit.                                                                   *)
(***************************************************************************)
EXTENDS Integers, Sequences, FiniteSets, TLC

-----------------------------------------------------------------------------
(* Bounds of the rolling-window specification *)
MaxCap == 3
MaxPushes == 6
MaxItem == 3

-----------------------------------------------------------------------------
(* Arithmetic helpers *)

Min(a, b) == IF a < b THEN a ELSE b

Max(a, b) == IF a > b THEN a ELSE b

\* Math.round of the non-negative quotient num/den (den > 0): floor(x + 0.5)
RoundDiv(num, den) == (2 * num + den) \div (2 * den)

RECURSIVE SumSeq(_)
SumSeq(s) ==
  IF Len(s) = 0 THEN 0
  ELSE IF Len(s) = 1 THEN s[1]
  ELSE LET half == Len(s) \div 2
       IN  SumSeq(SubSeq(s, 1, half)) + SumSeq(SubSeq(s, half + 1, Len(s)))

\* Number.MAX_VALUE in the unit of depth: a sum of non-negative numbers that
\* passes it is Infinity
MaxNumber == 100000

\* NaN where the source holds a number: no number of the model equals it
NaN == 0 - 1

\* the last k elements of s (all of s when k >= Len(s))
LastOf(s, k) == SubSeq(s, Len(s) - Min(k, Len(s)) + 1, Len(s))

-----------------------------------------------------------------------------
(* CircularBuffer<T> *)

NewBuffer(maxSize) == [buffer |-> <<>>, maxSize |-> maxSize, head |-> 0]

\* push that forgets the capacity
BufPushUnbounded(w, item) == [w EXCEPT !.buffer = Append(@, item)]

BufPush(w, item) ==
  IF Len(w.buffer) < w.maxSize
    THEN [w EXCEPT !.buffer = Append(@, item)]
    ELSE [w EXCEPT !.buffer[w.head + 1] = item,
                   !.head = (w.head + 1) % w.maxSize]

BufGetLast(w, n) ==
  LET size == Len(w.buffer) IN
  IF n >= size
    THEN w.buffer
    ELSE [j \in 1..n |-> w.buffer[((w.head - 1 - (n - j) + size) % size) + 1]]

\* getAll that returns the slots in storage order
BufGetAllRaw(w) == w.buffer

BufGetAll(w) ==
  LET size == Len(w.buffer) IN
  [j \in 1..size |-> w.buffer[((w.head + (j - 1)) % size) + 1]]

\* mean() as the exact quotient num/den; Infinity (1/0) when the sum has passed
\* the largest finite number
BufMean(w) ==
  IF Len(w.buffer) = 0
    THEN [num |-> 0, den |-> 1]
    ELSE IF SumSeq(w.buffer) > MaxNumber
      THEN [num |-> 1, den |-> 0]
      ELSE [num |-> SumSeq(w.buffer), den |-> Len(w.buffer)]

BufSize(w) == Len(w.buffer)

\* The arithmetic of mean() and standardDeviation() with its rounding: a binary
\* floating-point format of SignificandBits significant bits (a double has 53)
\* whose numbers are the non-negative integers m * 2^j with m < 2^SignificandBits;
\* every operation gives the number nearest to the exact result, ties to the
\* even significand.
SignificandBits == 4

\* the numbers of the format below 2^SignificandBits: each is exact
Floats == 0..(2 ^ SignificandBits - 1)

\* the integer nearest to num/den, ties to even
RoundHalfEven(num, den) ==
  LET f == num \div den
      r == num % den
  IN  IF 2 * r < den THEN f
      ELSE IF 2 * r > den THEN f + 1
      ELSE IF f % 2 = 0 THEN f ELSE f + 1

\* the number of the format nearest to num/den (num >= 0, den > 0)
FloatOf(num, den) ==
  LET j == CHOOSE e \in 0..SignificandBits :
             /\ e = 0 \/ num >= 2 ^ (SignificandBits - 1) * 2 ^ e * den
             /\ num < 2 ^ SignificandBits * 2 ^ e * den
  IN  RoundHalfEven(num, den * 2 ^ j) * 2 ^ j

\* buffer.reduce((acc, val) => acc + val, 0): each addition rounds
RECURSIVE FloatSum(_)
FloatSum(s) ==
  IF s = <<>> THEN 0
  ELSE FloatOf(FloatSum(SubSeq(s, 1, Len(s) - 1)) + s[Len(s)], 1)

\* mean(): the rounded sum divided by the length, rounded
BufMeanFloat(w) ==
  IF Len(w.buffer) = 0 THEN 0 ELSE FloatOf(FloatSum(w.buffer), Len(w.buffer))

\* the integer nearest to the square root of q
RoundSqrt(q) ==
  CHOOSE r \in 0..q : (r = 0 \/ (2 * r - 1) * (2 * r - 1) <= 4 * q)
                      /\ 4 * q < (2 * r + 1) * (2 * r + 1)

\* standardDeviation(): Math.sqrt(squaredDiffs / size), squaredDiffs being the
\* rounded sum of the rounded squares of the distances from mean()
BufStandardDeviation(w) ==
  LET size == Len(w.buffer)
      mean == BufMeanFloat(w)
      squares == [i \in 1..size |->
                    FloatOf((w.buffer[i] - mean) * (w.buffer[i] - mean), 1)]
  IN  IF size < 2 THEN 0
      ELSE FloatOf(RoundSqrt(FloatOf(FloatSum(squares), size)), 1)

\* clear that leaves the write cursor where it was
BufClearKeepsHead(w) == [w EXCEPT !.buffer = <<>>]

BufClear(w) == [w EXCEPT !.buffer = <<>>, !.head = 0]

-----------------------------------------------------------------------------
(* types.ts: enumerations *)

STABLE == "STABLE"

ELEVATED == "ELEVATED"

STRESSED == "STRESSED"

UNSTABLE == "UNSTABLE"

CRITICAL == "CRITICAL"

LOW == "LOW"

MEDIUM == "MEDIUM"

HIGH == "HIGH"

LIQUIDITY == "Liquidity Fragility"

FLOW == "Order Flow Imbalance"

VOLATILITY == "Volatility Regime Shift"

FORCED_SELLING == "Forced Selling"

\* key order of the signals object built by processTick (Object.values order)
SignalOrder == <<LIQUIDITY, FLOW, VOLATILITY, FORCED_SELLING>>

SignalTypes == {SignalOrder[i] : i \in 1..Len(SignalOrder)}

\* null, where the source holds an object or null
Null == [null |-> TRUE]

\* null, where the source holds a signal identifier or null
NullSignal == "null"

-----------------------------------------------------------------------------
(* Units *)

\* scores are held in units of 1/Scale
Scale == 10 ^ 4

-----------------------------------------------------------------------------
(* AnalyticsEngine: fields *)

LiquidityWindow == 300

PriceWindow == 300

VolWindow == 60

\* weights, in hundredths
Weights ==
  [s \in SignalTypes |->
     CASE s = LIQUIDITY -> 35
       [] s = FLOW -> 25
       [] s = VOLATILITY -> 25
       [] s = FORCED_SELLING -> 15]

NewEngine ==
  [liquidityBuffer |-> NewBuffer(LiquidityWindow),
   priceBuffer |-> NewBuffer(PriceWindow),
   volBuffer |-> NewBuffer(VolWindow),
   previousStress |-> 0,
   previousLevel |-> STABLE,
   previousSignalsAligned |-> 0,
   lastTrace |-> Null,
   triggerOrder |-> <<>>]

\* reset that forgets the trigger history
ResetKeepsTriggerOrder(e) ==
  [e EXCEPT !.liquidityBuffer = BufClear(@),
            !.priceBuffer = BufClear(@),
            !.volBuffer = BufClear(@),
            !.previousStress = 0,
            !.previousLevel = STABLE,
            !.previousSignalsAligned = 0,
            !.lastTrace = Null]

\* reset that leaves the smoothed score of the last tick in place
ResetKeepsScore(e) ==
  [e EXCEPT !.liquidityBuffer = BufClear(@),
            !.priceBuffer = BufClear(@),
            !.volBuffer = BufClear(@),
            !.previousLevel = STABLE,
            !.previousSignalsAligned = 0,
            !.triggerOrder = <<>>,
            !.lastTrace = Null]

Reset(e) ==
  [e EXCEPT !.liquidityBuffer = BufClear(@),
            !.priceBuffer = BufClear(@),
            !.volBuffer = BufClear(@),
            !.previousStress = 0,
            !.previousLevel = STABLE,
            !.previousSignalsAligned = 0,
            !.triggerOrder = <<>>,
            !.lastTrace = Null]

GetLastTrace(e) == e.lastTrace

-----------------------------------------------------------------------------
(* AnalyticsEngine: helpers *)

\* confidence that reaches each rank one sample early
DetermineConfidenceEarly(value, highThreshold, medThreshold) ==
  IF value + 1 >= highThreshold THEN HIGH
  ELSE IF value + 1 >= medThreshold THEN MEDIUM
  ELSE LOW

DetermineConfidence(value, highThreshold, medThreshold) ==
  IF value >= highThreshold THEN HIGH
  ELSE IF value >= medThreshold THEN MEDIUM
  ELSE LOW

\* getSeverity of the risk num/den; every comparison with NaN (0/0) is false
GetSeverity(num, den) ==
  IF num < 30 * den THEN STABLE
  ELSE IF num < 50 * den THEN ELEVATED
  ELSE IF num < 75 * den THEN STRESSED
  ELSE CRITICAL

\* classifyLevel of a score in units of 1/Scale
ClassifyLevel(score) ==
  IF score < 25 * Scale THEN STABLE
  ELSE IF score < 50 * Scale THEN ELEVATED
  ELSE IF score < 75 * Scale THEN STRESSED
  ELSE IF score < 90 * Scale THEN UNSTABLE
  ELSE CRITICAL

GetStressRank(level) ==
  CASE level = STABLE -> 0
    [] level = ELEVATED -> 1
    [] level = STRESSED -> 2
    [] level = UNSTABLE -> 3
    [] level = CRITICAL -> 4
    [] OTHER -> 0

DefaultSignal(name, ts) ==
  [name |-> name, value |-> 0, severity |-> STABLE, triggered |-> FALSE,
   explanation |-> "Insufficient data.", confidence |-> LOW, timestamp |-> ts]

\* a signal output from its risk num/den (num >= 0); Math.round(NaN) is NaN
SignalOf(name, num, den, threshold, hot, cool, confidence, ts) ==
  [name |-> name,
   value |-> IF den = 0 THEN NaN ELSE RoundDiv(num, den),
   severity |-> GetSeverity(num, den),
   triggered |-> num > threshold * den,
   explanation |-> IF num > threshold * den THEN hot ELSE cool,
   confidence |-> confidence,
   timestamp |-> ts]

-----------------------------------------------------------------------------
(* AnalyticsEngine: the four signal evaluators.                            *)
(* Each returns the signal; the two with a window also return the engine   *)
(* with the tick pushed.                                                   *)

LiquidityHighSamples == 60

LiquidityMedSamples == 20

LiquidityThreshold == 60

\* the risk without the check of a zero baseline: 0 / 0 is NaN
LiquidityRiskNoZeroGuard(depth, sum, n) ==
  LET below == sum - depth * n
  IN  IF n = 0 \/ sum = 0 THEN [num |-> 0, den |-> 0]
      ELSE IF below <= 0 THEN [num |-> 0, den |-> 1]
      ELSE IF below * 100 * 100 >= 100 * 40 * sum THEN [num |-> 100, den |-> 1]
      ELSE [num |-> below * 100 * 100, den |-> 40 * sum]

\* risk = depthChange >= 0 ? 0 : min(100, (-depthChange / 40) * 100), as num/den,
\* where depthChange = (depth - baseline) / baseline * 100 and baseline = sum/n.
\* With baseline Infinity (n = 0) depthChange is -Infinity / Infinity = NaN,
\* NaN >= 0 is false and min(100, NaN) is NaN.
LiquidityRisk(depth, sum, n) ==
  LET below == sum - depth * n     \* (baseline - depth) * n
  IN  IF n = 0 THEN [num |-> 0, den |-> 0]
      ELSE IF sum = 0 \/ below <= 0 THEN [num |-> 0, den |-> 1]
      ELSE IF below * 100 * 100 >= 100 * 40 * sum THEN [num |-> 100, den |-> 1]
      ELSE [num |-> below * 100 * 100, den |-> 40 * sum]

\* an evaluator whose baseline is the mean of the window before the tick's own depth
ProcessLiquidityEarlierBaseline(e, tick) ==
  LET buf == BufPush(e.liquidityBuffer, tick.total_depth)
      baseline == BufMean(e.liquidityBuffer)
      risk == LiquidityRisk(tick.total_depth, baseline.num, baseline.den)
      confidence == DetermineConfidence(BufSize(buf), LiquidityHighSamples, LiquidityMedSamples)
  IN  [eng |-> [e EXCEPT !.liquidityBuffer = buf],
       signal |-> SignalOf(LIQUIDITY, risk.num, risk.den, LiquidityThreshold,
                           "Liquidity hole.", "Depth within stable range.",
                           confidence, tick.processing_timestamp)]

ProcessLiquidity(e, tick) ==
  LET buf == BufPush(e.liquidityBuffer, tick.total_depth)
      baseline == BufMean(buf)
      risk == LiquidityRisk(tick.total_depth, baseline.num, baseline.den)
      confidence == DetermineConfidence(BufSize(buf), LiquidityHighSamples, LiquidityMedSamples)
  IN  [eng |-> [e EXCEPT !.liquidityBuffer = buf],
       signal |-> SignalOf(LIQUIDITY, risk.num, risk.den, LiquidityThreshold,
                           "Liquidity hole.", "Depth within stable range.",
                           confidence, tick.processing_timestamp)]

\* 2.0 and 0.5, in tenths
FlowHighVolume == 20

FlowMedVolume == 5

FlowThreshold == 65

\* the evaluator without the check of a zero total volume: sellRatio is 0 / 0
ProcessFlowUnguarded(tick) ==
  LET totalVol == tick.trades.buy_volume + tick.trades.sell_volume
      num == Max(0, (2 * tick.trades.sell_volume - totalVol) * 100)
      confidence == DetermineConfidence(totalVol, FlowHighVolume, FlowMedVolume)
  IN  SignalOf(FLOW, num, totalVol, FlowThreshold,
               "Aggressive market selling detected.", "Transaction flow is balanced.",
               confidence, tick.processing_timestamp)

ProcessFlow(tick) ==
  LET totalVol == tick.trades.buy_volume + tick.trades.sell_volume
      \* max(0, (sell/total - 0.5) * 200) = max(0, (2*sell - total) * 100 / total)
      num == Max(0, (2 * tick.trades.sell_volume - totalVol) * 100)
      confidence == DetermineConfidence(totalVol, FlowHighVolume, FlowMedVolume)
  IN  IF totalVol = 0 THEN DefaultSignal(FLOW, tick.processing_timestamp)
      ELSE SignalOf(FLOW, num, totalVol, FlowThreshold,
                    "Aggressive market selling detected.", "Transaction flow is balanced.",
                    confidence, tick.processing_timestamp)

VolatilityMinSamples == 20

VolatilityShort == 10

VolatilityHighSamples == 50

VolatilityMedSamples == 30

RECURSIVE SumSquares(_)
SumSquares(s) == IF s = <<>> THEN 0 ELSE Head(s) * Head(s) + SumSquares(Tail(s))

\* Len(arr)^2 times the population variance of arr
VarTimesN2(arr) == Len(arr) * SumSquares(arr) - SumSeq(arr) * SumSeq(arr)

\* (getStd(prices) || 1)^2 as a quotient: 1 in place of a deviation of 0, and
\* the deviation itself otherwise
StdLongSquared(prices) ==
  LET b == VarTimesN2(prices)
  IN  IF b = 0 THEN [num |-> 1, den |-> 1]
      ELSE [num |-> b, den |-> Len(prices) * Len(prices)]

\* (stdShort / (stdLong || 1))^2 as the quotient num / (den * VolatilityShort^2):
\* the short window holds VolatilityShort prices whenever the signal is computed
RatioSquared(prices) ==
  LET short == LastOf(prices, VolatilityShort)
      a == VarTimesN2(short)
      long == StdLongSquared(prices)
  IN  [num |-> a * long.den, den |-> long.num]

\* whether (ratio - 1) * 50 >= x/2, for x >= 0: ratio^2 >= ((100 + x) / 100)^2
VolatilityAtLeastHalf(r2, x) == r2.num * 100 >= (100 + x) * (100 + x) * r2.den

\* whether (ratio - 1) * 50 > x, for x >= 0
VolatilityAbove(r2, x) == r2.num * 25 > (50 + x) * (50 + x) * r2.den

\* Math.round(min(100, max(0, (ratio - 1) * 50))): the largest v in 0..100
\* with (ratio - 1) * 50 >= v - 1/2
VolatilityValue(r2) ==
  CHOOSE v \in 0..100 :
    /\ v = 0 \/ VolatilityAtLeastHalf(r2, 2 * v - 1)
    /\ v = 100 \/ ~VolatilityAtLeastHalf(r2, 2 * v + 1)

VolatilitySeverity(r2) ==
  IF ~VolatilityAtLeastHalf(r2, 60) THEN STABLE
  ELSE IF ~VolatilityAtLeastHalf(r2, 100) THEN ELEVATED
  ELSE IF ~VolatilityAtLeastHalf(r2, 150) THEN STRESSED
  ELSE CRITICAL

VolatilityThreshold == 55

\* a window that is short of samples only below the minimum less one
InsufficientPricesLate(prices) == Len(prices) < VolatilityMinSamples - 1

\* prices.length < 20
InsufficientPrices(prices) == Len(prices) < VolatilityMinSamples

ProcessVolatility(e, tick) ==
  LET buf == BufPush(e.priceBuffer, tick.price)
      prices == BufGetAll(buf)
      r2 == RatioSquared(prices)
      confidence == DetermineConfidence(Len(prices), VolatilityHighSamples, VolatilityMedSamples)
      hot == VolatilityAbove(r2, VolatilityThreshold)
  IN  [eng |-> [e EXCEPT !.priceBuffer = buf],
       signal |->
         IF InsufficientPrices(prices)
           THEN DefaultSignal(VOLATILITY, tick.processing_timestamp)
           ELSE [name |-> VOLATILITY,
                 value |-> VolatilityValue(r2),
                 severity |-> VolatilitySeverity(r2),
                 triggered |-> hot,
                 explanation |-> IF hot
                                   THEN "Price instability detected via volatility expansion."
                                   ELSE "Price volatility within regime bounds.",
                 confidence |-> confidence,
                 timestamp |-> tick.processing_timestamp]]

\* quantities in tenths: 5 is 50
ForcedSellingFull == 50

ForcedSellingThreshold == 45

ForcedHighTrades == 50

ForcedMedTrades == 10

RECURSIVE SumQuantity(_)
SumQuantity(trades) ==
  IF trades = <<>> THEN 0 ELSE Head(trades).quantity + SumQuantity(Tail(trades))

ProcessForcedSelling(tick) ==
  LET IsSell(t) == t.side = "sell"
      largeSells == SelectSeq(tick.trades.large_trades, IsSell)
      totalLargeVol == SumQuantity(largeSells)
      \* min(100, (totalLargeVol / 5) * 100)
      num == Min(100 * ForcedSellingFull, totalLargeVol * 100)
      totalTrades == tick.trades.buy_count + tick.trades.sell_count
      confidence == DetermineConfidence(totalTrades, ForcedHighTrades, ForcedMedTrades)
  IN  SignalOf(FORCED_SELLING, num, ForcedSellingFull, ForcedSellingThreshold,
               "Large seller active.", "No significant whale selling detected.",
               confidence, tick.processing_timestamp)

-----------------------------------------------------------------------------
(* AnalyticsEngine.calculateStressWithTrace *)

ShockStep == 8

AlphaRise == 35

AlphaDecay == 15

\* sigArray.filter(s => s.triggered).length
ActiveSignals(signals) == Cardinality({s \in SignalTypes : signals[s].triggered})

\* rawStress, in hundredths
RawStress(signals) ==
  signals[LIQUIDITY].value * Weights[LIQUIDITY]
  + signals[FLOW].value * Weights[FLOW]
  + signals[VOLATILITY].value * Weights[VOLATILITY]
  + signals[FORCED_SELLING].value * Weights[FORCED_SELLING]

\* shockMultiplier, in hundredths
ShockMultiplier(activeSignals) == 100 + activeSignals * ShockStep

\* min(100, rawStress * shockMultiplier), in units of 1/Scale (hundredths of hundredths)
TargetStress(rawStress, shockMultiplier) == Min(100 * Scale, rawStress * shockMultiplier)

\* alpha that takes a tie for a rise
SmoothingAlphaTieRises(targetStress, previousStress) ==
  IF targetStress >= previousStress THEN AlphaRise ELSE AlphaDecay

\* alpha, in hundredths
SmoothingAlpha(targetStress, previousStress) ==
  IF targetStress > previousStress THEN AlphaRise ELSE AlphaDecay

\* alpha * target + (1 - alpha) * previous, to the nearest 1/Scale
Smooth(alpha, targetStress, previousStress) ==
  RoundDiv(alpha * targetStress + (100 - alpha) * previousStress, 100)

\* the rounded score stored for the next tick
NextPreviousStressRounded(smoothedStress, finalScore) == finalScore * Scale

\* this.previousStress = smoothedStress
NextPreviousStress(smoothedStress, finalScore) == smoothedStress

\* the score of the tick as reported, after rounding
ClassifiedScoreRounded(smoothedStress, finalScore) == finalScore * Scale

\* the score classifyLevel is called on: this.classifyLevel(smoothedStress)
ClassifiedScore(smoothedStress, finalScore) == smoothedStress

ConfidenceRank(c) == IF c = HIGH THEN 3 ELSE IF c = MEDIUM THEN 2 ELSE 1

\* a fused confidence that an average of exactly 2.5 or 1.5 lifts
GlobalConfidenceInclusive(signals) ==
  LET sum == SumSeq([i \in 1..Len(SignalOrder) |-> ConfidenceRank(signals[SignalOrder[i]].confidence)])
  IN  IF sum * 10 >= 25 * Len(SignalOrder) THEN HIGH
      ELSE IF sum * 10 >= 15 * Len(SignalOrder) THEN MEDIUM
      ELSE LOW

\* avgConf > 2.5 and avgConf > 1.5, with avgConf = sum / 4
GlobalConfidence(signals) ==
  LET sum == SumSeq([i \in 1..Len(SignalOrder) |-> ConfidenceRank(signals[SignalOrder[i]].confidence)])
  IN  IF sum * 10 > 25 * Len(SignalOrder) THEN HIGH
      ELSE IF sum * 10 > 15 * Len(SignalOrder) THEN MEDIUM
      ELSE LOW

\* contributions that leave the weight out
WeightContributionsUnweighted(signals, rawStress) ==
  [i \in 1..Len(SignalOrder) |->
     LET sig == signals[SignalOrder[i]]
         contribution == sig.value * 100
     IN  [signal |-> sig.name,
          weight |-> Weights[sig.name],
          raw_value |-> sig.value,
          contribution |-> contribution,
          pct_of_total |-> IF rawStress > 0
                             THEN [num |-> contribution * 100, den |-> rawStress]
                             ELSE [num |-> 0, den |-> 1]]]

\* contribution in hundredths; pct_of_total as the quotient num/den
WeightContributions(signals, rawStress) ==
  [i \in 1..Len(SignalOrder) |->
     LET sig == signals[SignalOrder[i]]
         contribution == sig.value * Weights[sig.name]
     IN  [signal |-> sig.name,
          weight |-> Weights[sig.name],
          raw_value |-> sig.value,
          contribution |-> contribution,
          pct_of_total |-> IF rawStress > 0
                             THEN [num |-> contribution * 100, den |-> rawStress]
                             ELSE [num |-> 0, den |-> 1]]]

\* [...weight_contributions].sort((a,b) => b.contribution - a.contribution)[0]:
\* the sort is stable, so the first of the largest contributions
Dominant(wc) ==
  LET i == CHOOSE k \in 1..Len(wc) :
             /\ \A j \in 1..Len(wc) : wc[j].contribution <= wc[k].contribution
             /\ \A j \in 1..(k - 1) : wc[j].contribution < wc[k].contribution
  IN  wc[i]

\* a store that keeps the first trace it was given
StoreFirstTrace(e, trace) == IF e.lastTrace = Null THEN [e EXCEPT !.lastTrace = trace] ELSE e

\* this.lastTrace = trace
StoreTrace(e, trace) == [e EXCEPT !.lastTrace = trace]

CalculateStressWithTrace(e, signals, now) ==
  LET rawStress == RawStress(signals)
      activeSignals == ActiveSignals(signals)
      shockMultiplier == ShockMultiplier(activeSignals)
      targetStress == TargetStress(rawStress, shockMultiplier)
      alpha == SmoothingAlpha(targetStress, e.previousStress)
      smoothedStress == Smooth(alpha, targetStress, e.previousStress)
      finalScore == RoundDiv(smoothedStress, Scale)
      level == ClassifyLevel(ClassifiedScore(smoothedStress, finalScore))
      globalConfidence == GlobalConfidence(signals)
      weight_contributions == WeightContributions(signals, rawStress)
      dominant == Dominant(weight_contributions)
      trace ==
        [weight_contributions |-> weight_contributions,
         raw_score |-> rawStress,
         signals_aligned |-> activeSignals,
         shock_multiplier |-> shockMultiplier,
         pre_smooth_score |-> targetStress,
         smoothing_alpha |-> alpha,
         previous_score |-> e.previousStress,
         final_score |-> finalScore,
         confidence_reasons |-> [depth_samples |-> BufSize(e.liquidityBuffer),
                                 price_ticks |-> BufSize(e.priceBuffer)],
         audit_narrative |-> [dominant |-> dominant.signal,
                              shock_applied |-> activeSignals > 0,
                              direction |-> IF targetStress > e.previousStress
                                              THEN "rising" ELSE "falling",
                              final_score |-> finalScore,
                              level |-> level,
                              confidence |-> globalConfidence],
         timestamp |-> now]
      stress ==
        [score |-> finalScore,
         raw_score |-> rawStress,
         level |-> level,
         signals_aligned |-> activeSignals,
         confidence |-> globalConfidence,
         breakdown |-> [liquidity |-> signals[LIQUIDITY].value,
                        flow |-> signals[FLOW].value,
                        volatility |-> signals[VOLATILITY].value,
                        forcedSelling |-> signals[FORCED_SELLING].value],
         timestamp |-> now]
  IN  [eng |-> StoreTrace([e EXCEPT !.previousStress =
                                       NextPreviousStress(smoothedStress, finalScore)],
                          trace),
       stress |-> stress,
       trace |-> trace]

-----------------------------------------------------------------------------
(* AnalyticsEngine.buildCausalSequence *)

SystemicScore == 70

GenerateNarrative(steps) ==
  IF Len(steps) = 0 THEN [kind |-> "empty"]
  ELSE IF Len(steps) = 1 THEN [kind |-> "initiated", catalyst |-> steps[1].signal]
  ELSE IF \E i \in 1..Len(steps) : steps[i].type = "SYSTEMIC"
    THEN [kind |-> "systemic", catalyst |-> steps[1].signal, amplifiers |-> Len(steps) - 1]
  ELSE [kind |-> "tension", catalyst |-> steps[1].signal, last |-> steps[Len(steps)].signal]

\* an assessment without the text for scores above 80
RiskAssessmentTwoTexts(score) ==
  IF score > 60 THEN "UNSTABLE: Corrective action likely insufficient."
  ELSE "ELEVATED: Monitoring catalyst propagation."

RiskAssessment(score) ==
  IF score > 80 THEN "CRITICAL: Structural failure imminent."
  ELSE IF score > 60 THEN "UNSTABLE: Corrective action likely insufficient."
  ELSE "ELEVATED: Monitoring catalyst propagation."

\* a classification that never reaches SYSTEMIC
StepTypeBelowSystemic(index, score) == IF index = 0 THEN "CATALYST" ELSE "AMPLIFIER"

\* the type of the step at index (from 0) on a tick whose score is score
StepType(index, score) ==
  IF index = 0 THEN "CATALYST"
  ELSE IF score > SystemicScore THEN "SYSTEMIC" ELSE "AMPLIFIER"

\* a quiet tick that leaves the trigger history in place
KeepHistory(order) == order

\* this.triggerOrder = [] on a tick with no triggered signal
DiscardHistory(order) == <<>>

\* newly triggered signals put in front of the entries already present
RECURSIVE PrependNew(_, _, _, _)
PrependNew(order, active, signals, now) ==
  IF active = <<>> THEN order
  ELSE LET s == Head(active)
           known == \E i \in 1..Len(order) : order[i].signal = s
       IN  PrependNew(IF known THEN order
                      ELSE <<[signal |-> s, timestamp |-> now,
                              initialValue |-> signals[s].value]>> \o order,
                      Tail(active), signals, now)

\* every triggered signal pushed, whether the order holds it already or not
RECURSIVE AppendAll(_, _, _, _)
AppendAll(order, active, signals, now) ==
  IF active = <<>> THEN order
  ELSE AppendAll(Append(order, [signal |-> Head(active), timestamp |-> now,
                                initialValue |-> signals[Head(active)].value]),
                 Tail(active), signals, now)

\* activeSignalEntries.forEach: push each triggered signal that is not yet in the order
RECURSIVE AppendNew(_, _, _, _)
AppendNew(order, active, signals, now) ==
  IF active = <<>> THEN order
  ELSE LET s == Head(active)
           known == \E i \in 1..Len(order) : order[i].signal = s
       IN  AppendNew(IF known THEN order
                     ELSE Append(order, [signal |-> s, timestamp |-> now,
                                         initialValue |-> signals[s].value]),
                     Tail(active), signals, now)

\* a filter that removes no entry
DropNothing(order, signals) == order

\* this.triggerOrder.filter(t => signals[t.signal].triggered)
DropCleared(order, signals) ==
  LET StillTriggered(t) == signals[t.signal].triggered
  IN  SelectSeq(order, StillTriggered)

BuildCausalSequence(e, stress, signals, now) ==
  LET IsTriggered(s) == signals[s].triggered
      activeSignalEntries == SelectSeq(SignalOrder, IsTriggered)
      triggerOrder == DropCleared(AppendNew(e.triggerOrder, activeSignalEntries, signals, now),
                                  signals)
      steps ==
        [i \in 1..Len(triggerOrder) |->
           [sequence_id |-> i,
            type |-> StepType(i - 1, stress.score),
            signal |-> triggerOrder[i].signal,
            description |-> signals[triggerOrder[i].signal].explanation,
            severity |-> signals[triggerOrder[i].signal].severity,
            timestamp |-> triggerOrder[i].timestamp]]
  IN  IF Len(activeSignalEntries) = 0
        THEN [eng |-> [e EXCEPT !.triggerOrder = DiscardHistory(e.triggerOrder)],
              causal |-> [active |-> FALSE, steps |-> <<>>, catalyst_id |-> NullSignal,
                          narrative |-> [kind |-> "empty"], risk_assessment |-> ""]]
        ELSE [eng |-> [e EXCEPT !.triggerOrder = triggerOrder],
              causal |-> [active |-> TRUE,
                          steps |-> steps,
                          catalyst_id |-> IF Len(triggerOrder) > 0
                                            THEN triggerOrder[1].signal ELSE NullSignal,
                          narrative |-> GenerateNarrative(steps),
                          risk_assessment |-> RiskAssessment(stress.score)]]

-----------------------------------------------------------------------------
(* AnalyticsEngine.detectCriticalEvent *)

EventRank == 2

EventScore == 60

\* an upgrade that a tick at the same level counts as
LevelUpgradeNotStrict(e, stress) ==
  /\ GetStressRank(stress.level) >= GetStressRank(e.previousLevel)
  /\ GetStressRank(stress.level) >= EventRank

LevelUpgrade(e, stress) ==
  /\ GetStressRank(stress.level) > GetStressRank(e.previousLevel)
  /\ GetStressRank(stress.level) >= EventRank

\* more aligned signals counted as an increase at any score
AlignmentIncreaseAnyScore(e, stress) ==
  stress.signals_aligned > e.previousSignalsAligned

AlignmentIncrease(e, stress) ==
  /\ stress.signals_aligned > e.previousSignalsAligned
  /\ stress.score > EventScore

\* the baseline stored only on the branch that emits an event
DetectorUpdateOnEvent(e, stress, fired) ==
  IF fired
    THEN [e EXCEPT !.previousLevel = stress.level,
                   !.previousSignalsAligned = stress.signals_aligned]
    ELSE e

\* both branches store the tick's level and aligned count before returning
DetectorUpdate(e, stress, fired) ==
  [e EXCEPT !.previousLevel = stress.level,
            !.previousSignalsAligned = stress.signals_aligned]

\* the catalyst as it is, null included
PrimaryFactorRaw(causal) == causal.catalyst_id

\* causal.catalyst_id || 'Unknown Catalyst'
PrimaryFactor(causal) ==
  IF causal.catalyst_id = NullSignal THEN "Unknown Catalyst" ELSE causal.catalyst_id

DetectCriticalEvent(e, tick, stress, causal, rnd) ==
  LET event ==
        [id |-> [exchange_timestamp |-> tick.exchange_timestamp, suffix |-> rnd],
         timestamp |-> tick.exchange_timestamp,
         price |-> tick.price,
         stress_score |-> stress.score,
         level |-> stress.level,
         primary_factor |-> PrimaryFactor(causal),
         narrative |-> causal.narrative,
         signals |-> [i \in 1..Len(causal.steps) |-> causal.steps[i].signal]]
      fired == LevelUpgrade(e, stress) \/ AlignmentIncrease(e, stress)
  IN  [eng |-> DetectorUpdate(e, stress, fired),
       criticalEvent |-> IF fired THEN event ELSE Null]

-----------------------------------------------------------------------------
(* AnalyticsEngine.processTick *)

ProcessTick(e, tick, now, rnd) ==
  LET liq == ProcessLiquidity(e, tick)
      vol == ProcessVolatility(liq.eng, tick)
      signals ==
        [s \in SignalTypes |->
           CASE s = LIQUIDITY -> liq.signal
             [] s = FLOW -> ProcessFlow(tick)
             [] s = VOLATILITY -> vol.signal
             [] s = FORCED_SELLING -> ProcessForcedSelling(tick)]
      calc == CalculateStressWithTrace(vol.eng, signals, now)
      built == BuildCausalSequence(calc.eng, calc.stress, signals, now)
      detected == DetectCriticalEvent(built.eng, tick, calc.stress, built.causal, rnd)
  IN  [eng |-> detected.eng,
       out |-> [signals |-> signals,
                stress |-> calc.stress,
                causal |-> built.causal,
                criticalEvent |-> detected.criticalEvent,
                trace |-> calc.trace]]

-----------------------------------------------------------------------------
(* State *)

VARIABLES
  win,        \* a CircularBuffer under use
  hist,       \* items pushed into win since construction or the last clear
  ref,        \* a newly constructed buffer given the pushes made since the last clear
  cleared,    \* whether clear() has been called on win
  engine,     \* the AnalyticsEngine instance: its fields
  out,        \* what the latest processTick returned (Null before the first and after reset)
  ticks,      \* processTick calls since construction or the last reset
  clock,      \* processTick calls since construction: the time, Date.now()
  wasReset,   \* whether reset() has been called on engine
  fresh,      \* a newly constructed engine given the ticks made since the last reset
  freshOut,   \* what the latest processTick of fresh returned
  budget,     \* processTick calls left to the run
  unit,       \* an engine whose aggregator or detector is called directly
  unitIn,     \* the arguments of the latest direct call and, for the detector, the
              \* baseline it held when called (Null before the first call)
  unitOut     \* what the latest direct call returned (Null before the first)

bufVars == <<win, hist, ref, cleared>>

engVars == <<engine, out, ticks, clock, wasReset, fresh, freshOut, budget>>

unitVars == <<unit, unitIn, unitOut>>

vars == <<win, hist, ref, cleared, engine, out, ticks, clock, wasReset, fresh, freshOut,
          budget, unit, unitIn, unitOut>>

\* the parts of the state a specification leaves as constructed
BufIdle == win = NewBuffer(1) /\ ref = NewBuffer(1) /\ hist = <<>> /\ cleared = FALSE

EngIdle ==
  /\ engine = NewEngine
  /\ fresh = NewEngine
  /\ out = Null
  /\ freshOut = Null
  /\ ticks = 0
  /\ clock = 0
  /\ wasReset = FALSE
  /\ budget = 0

UnitIdle == unit = NewEngine /\ unitIn = Null /\ unitOut = Null

-----------------------------------------------------------------------------
(* Rolling-window specification: push and clear on one window *)

BufInit ==
  /\ \E n \in 1..MaxCap : win = NewBuffer(n) /\ ref = NewBuffer(n)
  /\ hist = <<>>
  /\ cleared = FALSE
  /\ EngIdle
  /\ UnitIdle

Push ==
  /\ Len(hist) < MaxPushes
  /\ \E item \in 1..MaxItem :
       /\ win' = BufPush(win, item)
       /\ ref' = BufPush(ref, item)
       /\ hist' = Append(hist, item)
  /\ UNCHANGED cleared
  /\ UNCHANGED <<engVars, unitVars>>

Clear ==
  /\ ~cleared
  /\ Len(hist) > 0
  /\ win' = BufClear(win)
  /\ ref' = NewBuffer(win.maxSize)
  /\ hist' = <<>>
  /\ cleared' = TRUE
  /\ UNCHANGED <<engVars, unitVars>>

BufNext == Push \/ Clear

SpecBuf == BufInit /\ [][BufNext]_vars

-----------------------------------------------------------------------------
(* Statistics specification: one value pushed again and again into a       *)
(* buffer of any capacity, then its mean() and standardDeviation() taken.  *)

SameInit ==
  /\ \E maxSize \in 1..MaxCap : win = NewBuffer(maxSize)
  /\ ref = NewBuffer(1)
  /\ hist = <<>>
  /\ cleared = FALSE
  /\ EngIdle
  /\ UnitIdle

PushSame ==
  /\ Len(hist) < MaxPushes
  /\ \E v \in Floats :
       /\ IF hist = <<>> THEN TRUE ELSE v = hist[1]
       /\ win' = BufPush(win, v)
       /\ hist' = Append(hist, v)
  /\ UNCHANGED <<ref, cleared>>
  /\ UNCHANGED <<engVars, unitVars>>

SpecSame == SameInit /\ [][PushSame]_vars

-----------------------------------------------------------------------------
(* Engine specification: processTick and reset on one engine *)

MaxTicks == 7

MaxRand == 1

Trade(side, quantity) == [side |-> side, quantity |-> quantity]

\* the market conditions a tick is drawn from: depth and price in whole units,
\* volumes and quantities in tenths
Calm ==
  [total_depth |-> 100, price |-> 100,
   trades |-> [buy_volume |-> 10, sell_volume |-> 10, buy_count |-> 5, sell_count |-> 5,
               large_trades |-> <<>>]]

Hole ==
  [total_depth |-> 10, price |-> 100,
   trades |-> [buy_volume |-> 0, sell_volume |-> 0, buy_count |-> 0, sell_count |-> 0,
               large_trades |-> <<Trade("buy", 30)>>]]

Selling ==
  [total_depth |-> 100, price |-> 98,
   trades |-> [buy_volume |-> 2, sell_volume |-> 30, buy_count |-> 10, sell_count |-> 60,
               large_trades |-> <<Trade("sell", 30), Trade("buy", 20), Trade("sell", 10)>>]]

Dump ==
  [total_depth |-> 10, price |-> 95,
   trades |-> [buy_volume |-> 0, sell_volume |-> 40, buy_count |-> 0, sell_count |-> 20,
               large_trades |-> <<Trade("sell", 60)>>]]

Markets == {Calm, Hole, Selling, Dump}

\* the tick made of market m at time t
TickAt(m, t) ==
  [exchange_timestamp |-> t, processing_timestamp |-> t,
   price |-> m.price, total_depth |-> m.total_depth, trades |-> m.trades]

\* Math.floor(Math.random() * 999) is drawn only when an event is built
Suffixes(r) == IF r.out.criticalEvent = Null THEN {0} ELSE 0..MaxRand

WithSuffix(r, rnd) ==
  IF r.out.criticalEvent = Null THEN r
  ELSE [r EXCEPT !.out.criticalEvent.id.suffix = rnd]

Init ==
  /\ engine = NewEngine
  /\ fresh = NewEngine
  /\ out = Null
  /\ freshOut = Null
  /\ ticks = 0
  /\ clock = 0
  /\ wasReset = FALSE
  /\ budget = MaxTicks
  /\ BufIdle
  /\ UnitIdle

Tick ==
  /\ budget > 0
  /\ \E m \in Markets :
       \E r \in {ProcessTick(engine, TickAt(m, clock + 1), clock + 1, 0)},
          f \in {ProcessTick(fresh, TickAt(m, clock + 1), clock + 1, 0)} :
         \E rnd \in Suffixes(r) :
           /\ engine' = r.eng
           /\ out' = WithSuffix(r, rnd).out
           /\ fresh' = f.eng
           /\ freshOut' = WithSuffix(f, rnd).out
  /\ ticks' = ticks + 1
  /\ clock' = clock + 1
  /\ budget' = budget - 1
  /\ UNCHANGED wasReset
  /\ UNCHANGED <<bufVars, unitVars>>

ResetEngine ==
  /\ ticks > 0
  /\ engine' = Reset(engine)
  /\ fresh' = NewEngine
  /\ out' = Null
  /\ freshOut' = Null
  /\ ticks' = 0
  /\ wasReset' = TRUE
  /\ UNCHANGED <<clock, budget>>
  /\ UNCHANGED <<bufVars, unitVars>>

Next == Tick \/ ResetEngine

Spec == Init /\ [][Next]_vars

-----------------------------------------------------------------------------
(* Engine specification from filled windows: the engine has processed      *)
(* WarmTicks calm ticks, so that the next tick finds the samples the       *)
(* volatility evaluator needs to compute and to trigger.                   *)

WarmTicks == 49

MaxWarmTicks == 6

\* the engine with previous score p whose windows hold k calm samples
EngineWith(p, k) ==
  [NewEngine EXCEPT !.previousStress = p,
                    !.liquidityBuffer.buffer = [i \in 1..k |-> Calm.total_depth],
                    !.priceBuffer.buffer = [i \in 1..k |-> Calm.price]]

\* the engine after k calm ticks: every signal of a calm tick is 0 and untriggered,
\* so the windows hold k calm samples, the scalars are as constructed, and the
\* last tick's trace is stored
Warmed(k) ==
  IF k = 0 THEN [eng |-> NewEngine, out |-> Null]
  ELSE ProcessTick([NewEngine EXCEPT
                      !.liquidityBuffer.buffer = [i \in 1..(k - 1) |-> Calm.total_depth],
                      !.priceBuffer.buffer = [i \in 1..(k - 1) |-> Calm.price]],
                   TickAt(Calm, k), k, 0)

WarmInit ==
  /\ \E w \in {Warmed(WarmTicks)} :
       /\ engine = w.eng
       /\ fresh = w.eng
       /\ out = w.out
       /\ freshOut = w.out
  /\ ticks = WarmTicks
  /\ clock = WarmTicks
  /\ wasReset = FALSE
  /\ budget = MaxWarmTicks
  /\ BufIdle
  /\ UnitIdle

SpecWarm == WarmInit /\ [][Next]_vars

-----------------------------------------------------------------------------
(* Aggregator specification: calculateStressWithTrace called on any        *)
(* previous score and any four signal results.                             *)

\* previous smoothed scores, in units of 1/Scale: 0, 10.584, 24.6, 30.24, 50, 99.5, 100
PrevScores == {0, 105840, 246000, 302400, 500000, 995000, 1000000}

\* signal results: a value with the flag and confidence an evaluator gives it
SignalInputs ==
  {[value |-> 0, triggered |-> FALSE, confidence |-> LOW],
   [value |-> 50, triggered |-> FALSE, confidence |-> MEDIUM],
   [value |-> 60, triggered |-> TRUE, confidence |-> MEDIUM],
   [value |-> 80, triggered |-> TRUE, confidence |-> HIGH],
   [value |-> 100, triggered |-> TRUE, confidence |-> HIGH]}

SignalFrom(name, in) ==
  [name |-> name, value |-> in.value, severity |-> GetSeverity(in.value, 1),
   triggered |-> in.triggered, explanation |-> "", confidence |-> in.confidence,
   timestamp |-> 0]

AggInit ==
  /\ BufIdle
  /\ EngIdle
  /\ \E p \in PrevScores, ins \in [SignalTypes -> SignalInputs] :
       /\ unit = [NewEngine EXCEPT !.previousStress = p]
       /\ unitIn = [previousStress |-> p,
                    signals |-> [s \in SignalTypes |-> SignalFrom(s, ins[s])]]
  /\ unitOut = Null

Aggregate ==
  /\ unitOut = Null
  /\ \E r \in {CalculateStressWithTrace(unit, unitIn.signals, 0)} :
       /\ unitOut' = [stress |-> r.stress, trace |-> r.trace]
       /\ unit' = r.eng
  /\ UNCHANGED unitIn
  /\ UNCHANGED <<bufVars, engVars>>

SpecAgg == AggInit /\ [][Aggregate]_vars

-----------------------------------------------------------------------------
(* Detector specification: detectCriticalEvent called tick after tick on   *)
(* any smoothed score and any aligned-signal count; the score and level    *)
(* are those the aggregator derives from the smoothed score.  The ticks    *)
(* share one exchange_timestamp; the ids of the events emitted by earlier  *)
(* calls are kept.                                                         *)

\* smoothed scores, in units of 1/Scale: 10, 24.6, 40, 60.4, 65, 66, 74.8, 80, 95
DetScores == {100000, 246000, 400000, 604000, 650000, 660000, 748000, 800000, 950000}

DetInit == BufIdle /\ EngIdle /\ UnitIdle

\* the ids of the events the engine has emitted so far
Emitted ==
  IF unitOut = Null THEN {}
  ELSE IF unitOut.criticalEvent = Null THEN unitIn.emitted
  ELSE unitIn.emitted \cup {unitOut.criticalEvent.id}

Detect ==
  /\ \E smoothed \in DetScores, aligned \in 0..Len(SignalOrder), rnd \in 0..MaxRand :
       LET stress == [score |-> RoundDiv(smoothed, Scale),
                      level |-> ClassifyLevel(smoothed),
                      signals_aligned |-> aligned]
           causal == [active |-> FALSE, steps |-> <<>>, catalyst_id |-> NullSignal,
                      narrative |-> [kind |-> "empty"], risk_assessment |-> ""]
       IN  \E r \in {DetectCriticalEvent(unit, TickAt(Calm, 0), stress, causal, rnd)} :
             /\ unitIn' = [stress |-> stress,
                           previousLevel |-> unit.previousLevel,
                           previousSignalsAligned |-> unit.previousSignalsAligned,
                           emitted |-> Emitted]
             /\ unitOut' = [criticalEvent |-> r.criticalEvent]
             /\ unit' = r.eng
  /\ UNCHANGED <<bufVars, engVars>>

SpecDet == DetInit /\ [][Detect]_vars

-----------------------------------------------------------------------------
(* Liquidity specification: processLiquidity called tick after tick on any  *)
(* finite non-negative depth, up to the largest finite number, on an       *)
(* engine that is new or has processed a number of calm ticks; the depths  *)
(* of all ticks since construction are kept.                               *)

MaxDepthTicks == 4

Depths == {0, 10, 70, 100, MaxNumber}

\* calm ticks processed before: none, and one short of its turning points
\* (20 and 60 samples, a full window)
FillLevels == {0, LiquidityMedSamples - 2, LiquidityHighSamples - 2, LiquidityWindow - 2}

LiqInit ==
  /\ BufIdle
  /\ EngIdle
  /\ \E filled \in FillLevels :
       /\ unit = EngineWith(0, filled)
       /\ unitIn = [filled |-> filled, depths |-> [i \in 1..filled |-> Calm.total_depth]]
  /\ unitOut = Null

Liquidity ==
  /\ Len(unitIn.depths) < unitIn.filled + MaxDepthTicks
  /\ \E depth \in Depths :
       LET tick == TickAt([Calm EXCEPT !.total_depth = depth], Len(unitIn.depths) + 1)
       IN  \E r \in {ProcessLiquidity(unit, tick)} :
             /\ unitIn' = [filled |-> unitIn.filled, tick |-> tick,
                           depths |-> Append(unitIn.depths, depth)]
             /\ unitOut' = [signal |-> r.signal]
             /\ unit' = r.eng
  /\ UNCHANGED <<bufVars, engVars>>

SpecLiq == LiqInit /\ [][Liquidity]_vars

-----------------------------------------------------------------------------
(* Purity specification: calculateStressWithTrace called twice on the same *)
(* four signal results and the same previous score: once at time 0 on an   *)
(* engine with empty windows, once at any time on an engine whose windows  *)
(* hold any number of samples.                                             *)

MaxLater == 1

MaxSamples == 1

PureInit ==
  /\ BufIdle
  /\ EngIdle
  /\ \E p \in PrevScores, ins \in [SignalTypes -> SignalInputs] :
       /\ unit = EngineWith(p, 0)
       /\ unitIn = [previousStress |-> p,
                    signals |-> [s \in SignalTypes |-> SignalFrom(s, ins[s])]]
  /\ unitOut = Null

AggregateTwice ==
  /\ unitOut = Null
  /\ \E now \in 0..MaxLater, samples \in 0..MaxSamples :
       \E r \in {CalculateStressWithTrace(unit, unitIn.signals, 0)},
          q \in {CalculateStressWithTrace(EngineWith(unitIn.previousStress, samples),
                                          unitIn.signals, now)} :
         /\ unitOut' = [first |-> [stress |-> r.stress, trace |-> r.trace],
                        second |-> [stress |-> q.stress, trace |-> q.trace],
                        now |-> now,
                        samples |-> samples]
         /\ unit' = r.eng
  /\ UNCHANGED unitIn
  /\ UNCHANGED <<bufVars, engVars>>

SpecPure == PureInit /\ [][AggregateTwice]_vars

-----------------------------------------------------------------------------
(* Engine specification around the twentieth tick: the engine has          *)
(* processed FillTicks calm ticks and goes on, on any market, past the     *)
(* tick that gives the volatility evaluator its twentieth price.           *)

FillTicks == 17

MaxFillTicks == 4

FillInit ==
  /\ \E w \in {Warmed(FillTicks)} :
       /\ engine = w.eng
       /\ fresh = w.eng
       /\ out = w.out
       /\ freshOut = w.out
  /\ ticks = FillTicks
  /\ clock = FillTicks
  /\ wasReset = FALSE
  /\ budget = MaxFillTicks
  /\ BufIdle
  /\ UnitIdle

SpecFill == FillInit /\ [][Next]_vars

-----------------------------------------------------------------------------
(* Observed-tick specification: processTick called tick after tick on an   *)
(* engine that has processed WarmTicks calm ticks; the tick and what       *)
(* processTick returned for it are kept side by side, with what it         *)
(* returned for the tick before; getLastTrace is called at any time, and   *)
(* what it returned since the latest tick is kept.                         *)

MaxObserved == 5

\* a market under strain on every side, each signal short of its threshold
Simmer ==
  [total_depth |-> 76, price |-> 95,
   trades |-> [buy_volume |-> 8, sell_volume |-> 32, buy_count |-> 10, sell_count |-> 30,
               large_trades |-> <<Trade("sell", 22)>>]]

ObsMarkets == Markets \cup {Simmer}

ObsInit ==
  /\ BufIdle
  /\ EngIdle
  /\ unit = Warmed(WarmTicks).eng
  /\ unitIn = [tick |-> TickAt(Calm, WarmTicks), before |-> Null, read |-> Null]
  /\ unitOut = Warmed(WarmTicks).out

Observe ==
  /\ BufSize(unit.priceBuffer) < WarmTicks + MaxObserved
  /\ \E m \in ObsMarkets :
       LET t == BufSize(unit.priceBuffer) + 1
       IN  \E r \in {ProcessTick(unit, TickAt(m, t), t, 0)} :
             \E rnd \in Suffixes(r) :
               /\ unit' = r.eng
               /\ unitIn' = [tick |-> TickAt(m, t), before |-> unitOut, read |-> Null]
               /\ unitOut' = WithSuffix(r, rnd).out
  /\ UNCHANGED <<bufVars, engVars>>

ReadTrace ==
  /\ unitIn' = [unitIn EXCEPT !.read = GetLastTrace(unit)]
  /\ UNCHANGED <<unit, unitOut>>
  /\ UNCHANGED <<bufVars, engVars>>

ObsNext == Observe \/ ReadTrace

SpecObs == ObsInit /\ [][ObsNext]_vars

-----------------------------------------------------------------------------
(* Flow specification: processFlow called on a tick with any buy and sell  *)
(* volume.                                                                 *)

\* the largest volume of a side, in tenths
MaxVolume == 23

FlowInit ==
  /\ BufIdle
  /\ EngIdle
  /\ unit = NewEngine
  /\ \E buy \in 0..MaxVolume, sell \in 0..MaxVolume :
       unitIn = [tick |-> TickAt([Calm EXCEPT !.trades.buy_volume = buy,
                                              !.trades.sell_volume = sell], 1)]
  /\ unitOut = Null

Flow ==
  /\ unitOut = Null
  /\ unitOut' = [signal |-> ProcessFlow(unitIn.tick)]
  /\ UNCHANGED <<unit, unitIn>>
  /\ UNCHANGED <<bufVars, engVars>>

SpecFlow == FlowInit /\ [][Flow]_vars

-----------------------------------------------------------------------------
(* Decay specification: from any previous score, tick after tick on which  *)
(* the four signals have value 0 and are not triggered; each tick runs the *)
(* aggregator, the chain builder and the detector of processTick.          *)

\* the ticks of a decay that are followed
MaxQuiet == 35

\* previous smoothed scores, in units of 1/Scale: 0, just below and at 0.5,
\* 25, 60.4, 75, 99.5, 100
DecayScores == {0, 4999, 5000, 250000, 604000, 750000, 995000, 1000000}

QuietSignals ==
  [s \in SignalTypes |->
     SignalFrom(s, [value |-> 0, triggered |-> FALSE, confidence |-> LOW])]

DecayInit ==
  /\ BufIdle
  /\ EngIdle
  /\ \E p \in DecayScores, aligned \in 0..Len(SignalOrder) :
       /\ unit = [NewEngine EXCEPT !.previousStress = p,
                                   !.previousLevel = ClassifyLevel(p),
                                   !.previousSignalsAligned = aligned]
       /\ unitIn = [start |-> p, count |-> 0, before |-> RoundDiv(p, Scale)]
  /\ unitOut = Null

Quiet ==
  /\ unitIn.count < MaxQuiet
  /\ LET now == unitIn.count + 1
         calc == CalculateStressWithTrace(unit, QuietSignals, now)
         built == BuildCausalSequence(calc.eng, calc.stress, QuietSignals, now)
         detected == DetectCriticalEvent(built.eng, TickAt(Calm, now), calc.stress,
                                         built.causal, 0)
     IN  /\ unit' = detected.eng
         /\ unitOut' = [stress |-> calc.stress, causal |-> built.causal,
                        criticalEvent |-> detected.criticalEvent]
         /\ unitIn' = [start |-> unitIn.start, count |-> now,
                       before |-> IF unitOut = Null THEN unitIn.before
                                  ELSE unitOut.stress.score]
  /\ UNCHANGED <<bufVars, engVars>>

SpecDecay == DecayInit /\ [][Quiet]_vars /\ WF_vars(Quiet)

-----------------------------------------------------------------------------
(* Chain specification: buildCausalSequence called once on any four signal *)
(* results, on an engine whose trigger history is empty or holds one       *)
(* signal.                                                                 *)

\* signal results: quiet, just triggered, and at the top of the range
ChainInputs ==
  {[value |-> 0, triggered |-> FALSE, confidence |-> LOW],
   [value |-> 60, triggered |-> TRUE, confidence |-> MEDIUM],
   [value |-> 100, triggered |-> TRUE, confidence |-> HIGH]}

\* trigger histories: none, or one signal triggered on the tick before
ChainOrders ==
  {<<>>} \cup {<<[signal |-> s, timestamp |-> 0, initialValue |-> 60]>> : s \in SignalTypes}

ChainInit ==
  /\ BufIdle
  /\ EngIdle
  /\ \E order \in ChainOrders, ins \in [SignalTypes -> ChainInputs] :
       /\ unit = [NewEngine EXCEPT !.triggerOrder = order]
       /\ unitIn = [triggerOrder |-> order,
                    signals |-> [s \in SignalTypes |-> SignalFrom(s, ins[s])]]
  /\ unitOut = Null

Build ==
  /\ unitOut = Null
  /\ LET calc == CalculateStressWithTrace(unit, unitIn.signals, 1)
         built == BuildCausalSequence(calc.eng, calc.stress, unitIn.signals, 1)
     IN  /\ unit' = built.eng
         /\ unitOut' = [causal |-> built.causal]
  /\ UNCHANGED unitIn
  /\ UNCHANGED <<bufVars, engVars>>

SpecChain == ChainInit /\ [][Build]_vars

-----------------------------------------------------------------------------
(* Confidence specification: the engine has processed a number of calm     *)
(* ticks, none or a few short of a turning point of the sample-count       *)
(* confidences (20, 30 and 50 samples), and goes on, on any market, past   *)
(* that point.                                                             *)

MaxConfTicks == 4

\* calm ticks processed before
ConfLevels == {0, LiquidityMedSamples - 2, VolatilityMedSamples - 2, VolatilityHighSamples - 4}

ConfInit ==
  /\ \E k \in ConfLevels :
       \E w \in {Warmed(k)} :
         /\ engine = w.eng
         /\ fresh = w.eng
         /\ out = w.out
         /\ freshOut = w.out
         /\ ticks = k
         /\ clock = k
  /\ wasReset = FALSE
  /\ budget = MaxConfTicks
  /\ BufIdle
  /\ UnitIdle

SpecConf == ConfInit /\ [][Next]_vars

-----------------------------------------------------------------------------
(* BinanceService: the live feed.  unit is the service object, unitIn the  *)
(* runtime around it (start() calls awaiting the clock sync, interval      *)
(* timers, sockets the service no longer refers to, reconnect timers) and  *)
(* unitOut what an observer of the service has seen.                       *)

MaxStarts == 2

MaxStops == 2

MaxCloses == 2

MaxEmits == 2

TRADES == "trades"

DEPTH == "depth"

TICKER == "ticker"

\* tradeWS, depthWS, tickerWS
Streams == {TRADES, DEPTH, TICKER}

\* the fields of a new service: no socket, no data, no interval
NewService ==
  [ws |-> [s \in Streams |-> "null"],
   lastPrice |-> 0,
   book |-> FALSE,
   volume24h |-> 0,
   intervalId |-> FALSE]

NewRuntime ==
  [awaiting |-> 0,
   intervals |-> 0,
   unreferenced |-> [s \in Streams |-> 0],
   timers |-> [s \in Streams |-> 0],
   starts |-> 0,
   stops |-> 0,
   closes |-> 0]

NewObserver ==
  [stopped |-> FALSE,
   calls |-> 0,
   callsAfterStop |-> 0,
   opensAfterStop |-> 0]

\* this.tradeWS = new WebSocket(...): the field refers to the new socket; a
\* socket it referred to before is not closed and keeps its handlers
ConnectField(svc, s) == [svc EXCEPT !.ws[s] = "open"]

ConnectRuntime(svc, rt, s) ==
  IF svc.ws[s] = "open"
    THEN [rt EXCEPT !.unreferenced[s] = @ + 1]
    ELSE rt

\* the sockets of stream s that are open
OpenSockets(svc, rt, s) ==
  (IF svc.ws[s] = "open" THEN 1 ELSE 0) + rt.unreferenced[s]

\* closeSockets: each socket a field refers to loses its handlers and is
\* closed, and the three fields are set to null
CloseSockets(svc) == [svc EXCEPT !.ws = [s \in Streams |-> "null"]]

FeedInit ==
  /\ BufIdle
  /\ EngIdle
  /\ unit = NewService
  /\ unitIn = NewRuntime
  /\ unitOut = NewObserver

\* start() is called and runs up to await this.syncClock()
Start ==
  /\ unitIn.starts < MaxStarts
  /\ unitIn' = [unitIn EXCEPT !.awaiting = @ + 1, !.starts = @ + 1]
  /\ unitOut' = [unitOut EXCEPT !.stopped = FALSE]
  /\ UNCHANGED unit
  /\ UNCHANGED <<bufVars, engVars>>

\* the clock sync ends (with a response or with a failure) and start() goes
\* on: it connects the three streams, clears the interval the service
\* holds, if any, and sets a new one
StartResumes ==
  /\ unitIn.awaiting > 0
  /\ unit' = [unit EXCEPT !.ws = [s \in Streams |-> "open"], !.intervalId = TRUE]
  /\ unitIn' = [unitIn EXCEPT
                  !.awaiting = @ - 1,
                  !.unreferenced = [s \in Streams |-> ConnectRuntime(unit, unitIn, s).unreferenced[s]],
                  !.intervals = (IF unit.intervalId THEN @ - 1 ELSE @) + 1]
  /\ unitOut' = [unitOut EXCEPT !.opensAfterStop =
                                   IF unitOut.stopped THEN @ + 1 ELSE @]
  /\ UNCHANGED <<bufVars, engVars>>

\* stop(): clears the interval the service holds, if any, and closes the
\* sockets the fields refer to
Stop ==
  /\ unitIn.stops < MaxStops
  /\ unit' = [CloseSockets(unit) EXCEPT !.intervalId = FALSE]
  /\ unitIn' = [unitIn EXCEPT !.intervals = IF unit.intervalId THEN @ - 1 ELSE @,
                              !.stops = @ + 1]
  /\ unitOut' = [unitOut EXCEPT !.stopped = TRUE]
  /\ UNCHANGED <<bufVars, engVars>>

\* onmessage of an open socket of stream s
OnMessage ==
  /\ \E s \in Streams :
       /\ OpenSockets(unit, unitIn, s) > 0
       /\ unit' = CASE s = TRADES -> [unit EXCEPT !.lastPrice = 1]
                    [] s = DEPTH -> [unit EXCEPT !.book = TRUE]
                    [] s = TICKER -> [unit EXCEPT !.volume24h = 1]
  /\ UNCHANGED <<unitIn, unitOut>>
  /\ UNCHANGED <<bufVars, engVars>>

\* the far end or the network closes an open socket of stream s, the one the
\* field refers to or one it no longer refers to; its onclose handler sets a
\* reconnect timer when the service holds an interval
OnClose ==
  /\ unitIn.closes < MaxCloses
  /\ \E s \in Streams, referenced \in BOOLEAN :
       /\ IF referenced THEN unit.ws[s] = "open" ELSE unitIn.unreferenced[s] > 0
       /\ unit' = IF referenced THEN [unit EXCEPT !.ws[s] = "closed"] ELSE unit
       /\ unitIn' = [unitIn EXCEPT
                       !.unreferenced[s] = IF referenced THEN @ ELSE @ - 1,
                       !.timers[s] = IF unit.intervalId THEN @ + 1 ELSE @,
                       !.closes = @ + 1]
  /\ UNCHANGED unitOut
  /\ UNCHANGED <<bufVars, engVars>>

\* a reconnect timer of stream s fires: connectTrades, connectDepth or
\* connectTicker
Reconnect ==
  /\ \E s \in Streams :
       /\ unitIn.timers[s] > 0
       /\ unit' = ConnectField(unit, s)
       /\ unitIn' = [ConnectRuntime(unit, unitIn, s) EXCEPT !.timers[s] = @ - 1]
  /\ unitOut' = [unitOut EXCEPT !.opensAfterStop =
                                   IF unitOut.stopped THEN @ + 1 ELSE @]
  /\ UNCHANGED <<bufVars, engVars>>

\* an interval timer fires: emitTick returns early without a price or a
\* book, and calls the tick callback otherwise
EmitTick ==
  /\ unitIn.intervals > 0
  /\ unitOut.calls < MaxEmits
  /\ unit.lastPrice # 0 /\ unit.book
  /\ unitOut' = [unitOut EXCEPT !.calls = @ + 1,
                                !.callsAfterStop = IF unitOut.stopped THEN @ + 1 ELSE @]
  /\ UNCHANGED <<unit, unitIn>>
  /\ UNCHANGED <<bufVars, engVars>>

FeedNext ==
  \/ Start
  \/ StartResumes
  \/ Stop
  \/ OnMessage
  \/ OnClose
  \/ Reconnect
  \/ EmitTick

SpecFeed == FeedInit /\ [][FeedNext]_vars

-----------------------------------------------------------------------------
(* Properties of the rolling window (under SpecBuf) *)

\* C1: size() never exceeds the capacity, and it equals the capacity once
\* capacity or more pushes were made since construction or the last clear.
C1_SizeWithinCapacity ==
  /\ BufSize(win) <= win.maxSize
  /\ Len(hist) >= win.maxSize => BufSize(win) = win.maxSize

C1_Witness == cleared /\ Len(hist) > win.maxSize /\ BufSize(win) = win.maxSize

\* C2: after more pushes than the capacity, getAll() is exactly the last
\* capacity items pushed, in the order they were pushed.
C2_GetAllIsFifo ==
  Len(hist) > win.maxSize => BufGetAll(win) = LastOf(hist, win.maxSize)

C2_Witness ==
  /\ win.maxSize >= 2
  /\ Len(hist) > win.maxSize + 1
  /\ win.head > 0
  /\ BufGetAll(win) # win.buffer

\* C3: in every state and for every n >= 0, getLast(n) is the last
\* min(n, size()) items pushed, in the order they were pushed.
C3_GetLastChronological ==
  \A n \in 0..(MaxPushes + 1) :
    BufGetLast(win, n) = LastOf(hist, Min(n, BufSize(win)))

\* C4: after clear() the window is empty, and from then on size(), getAll(),
\* getLast(n) and mean() answer as they do on a newly constructed window of the
\* same capacity given the same pushes.
C4_ClearIsFresh ==
  cleared =>
    /\ hist = <<>> => BufSize(win) = 0 /\ BufGetAll(win) = <<>>
    /\ BufSize(win) = BufSize(ref)
    /\ BufGetAll(win) = BufGetAll(ref)
    /\ \A n \in 0..(MaxPushes + 1) : BufGetLast(win, n) = BufGetLast(ref, n)
    /\ BufMean(win).num * BufMean(ref).den = BufMean(ref).num * BufMean(win).den

C4_Witness == cleared /\ Len(hist) > win.maxSize /\ win.maxSize >= 2

-----------------------------------------------------------------------------
(* Properties of the engine *)

Abs(x) == IF x < 0 THEN 0 - x ELSE x

\* what a caller sees of a processTick result: signal values and flags, score,
\* level, fused confidence, causal steps, and whether an event was emitted
Observed(o) ==
  IF o = Null THEN Null
  ELSE [values |-> [s \in SignalTypes |-> o.signals[s].value],
        triggered |-> [s \in SignalTypes |-> o.signals[s].triggered],
        score |-> o.stress.score,
        level |-> o.stress.level,
        confidence |-> o.stress.confidence,
        steps |-> o.causal.steps,
        fired |-> o.criticalEvent # Null]

\* C5 (under SpecWarm): once reset() was called, every processTick result is the
\* one a newly constructed engine gives on the ticks made since the reset, and
\* getLastTrace() is null until the next processTick.
C5_ResetIsFresh ==
  wasReset =>
    /\ Observed(out) = Observed(freshOut)
    /\ GetLastTrace(engine) = GetLastTrace(fresh)
    /\ ticks = 0 => GetLastTrace(engine) = Null

C5_Witness ==
  /\ wasReset
  /\ ticks >= 3
  /\ out # Null
  /\ out.criticalEvent # Null
  /\ Len(out.causal.steps) >= 2

\* C6 (under SpecAgg): for every previous score p and four signal results the
\* trace reports raw = 0.35 l + 0.25 f + 0.25 v + 0.15 s, k = triggered signals,
\* multiplier = 1 + 0.08 k, target = min(100, raw * multiplier), alpha = 0.35 if
\* target > p and 0.15 otherwise, smoothed = alpha * target + (1 - alpha) * p and
\* score = round(smoothed); with p = 0, all signals 0 give alpha 0.15 and score 0,
\* and liquidity 80 triggered alone gives 28, 1.08, 30.24, 0.35, score 11, STABLE.
C6_Aggregation ==
  unitOut # Null =>
    LET sig == unitIn.signals
        p == unitIn.previousStress
        t == unitOut.trace
        raw == 35 * sig[LIQUIDITY].value + 25 * sig[FLOW].value
               + 25 * sig[VOLATILITY].value + 15 * sig[FORCED_SELLING].value
        k == Cardinality({s \in SignalTypes : sig[s].triggered})
        target == IF raw * (100 + 8 * k) > 1000000 THEN 1000000 ELSE raw * (100 + 8 * k)
        alpha == IF target > p THEN 35 ELSE 15
        quiet(s) == sig[s].value = 0 /\ ~sig[s].triggered
    IN  /\ t.raw_score = raw
        /\ t.signals_aligned = k
        /\ t.shock_multiplier = 100 + 8 * k
        /\ t.pre_smooth_score = target
        /\ t.smoothing_alpha = alpha
        /\ t.previous_score = p
        /\ Abs(100 * unit.previousStress - (alpha * target + (100 - alpha) * p)) <= 50
        /\ t.final_score * 10000 - 5000 <= unit.previousStress
        /\ unit.previousStress < t.final_score * 10000 + 5000
        /\ unitOut.stress.score = t.final_score
        /\ (p = 0 /\ \A s \in SignalTypes : quiet(s)) =>
             /\ t.smoothing_alpha = 15
             /\ unitOut.stress.score = 0
             /\ unitOut.stress.level = STABLE
        /\ (/\ p = 0
            /\ sig[LIQUIDITY].value = 80 /\ sig[LIQUIDITY].triggered
            /\ \A s \in SignalTypes \ {LIQUIDITY} : quiet(s)) =>
             /\ t.raw_score = 2800
             /\ t.shock_multiplier = 108
             /\ t.pre_smooth_score = 302400
             /\ t.smoothing_alpha = 35
             /\ unit.previousStress = 105840
             /\ unitOut.stress.score = 11
             /\ unitOut.stress.level = STABLE

C6_Witness ==
  /\ unitOut # Null
  /\ unitIn.previousStress = 0
  /\ unitIn.signals[LIQUIDITY].value = 80
  /\ unitIn.signals[LIQUIDITY].triggered
  /\ \A s \in SignalTypes \ {LIQUIDITY} : unitIn.signals[s].value = 0
  /\ unitOut.stress.score = 11

\* C7 (under Spec): the previous score a tick uses and reports is 0 on the first
\* tick after construction or reset, and on every later tick the smoothed value
\* alpha * target + (1 - alpha) * previous of the tick before, unrounded.
C7_CarriesUnrounded ==
  [][ticks' = ticks + 1 =>
       /\ ticks = 0 => out'.trace.previous_score = 0
       /\ ticks > 0 =>
            Abs(100 * out'.trace.previous_score
                - (out.trace.smoothing_alpha * out.trace.pre_smooth_score
                   + (100 - out.trace.smoothing_alpha) * out.trace.previous_score)) <= 50]_vars

C7_Witness ==
  /\ ticks >= 2
  /\ wasReset
  /\ out.trace.previous_score % Scale # 0
  /\ out.trace.previous_score # Scale * RoundDiv(out.trace.previous_score, Scale)

\* C8 (under SpecLiq): for finite non-negative depths, the value of the
\* liquidity signal is an integer in 0..100 after every tick.
C8_SignalValueInRange ==
  unitOut # Null =>
    /\ unitOut.signal.value # NaN
    /\ unitOut.signal.value \in 0..100

\* (under SpecWarm) on the markets of the engine specification, whose window
\* sums stay finite, every signal value and every score is an integer in
\* 0..100 and the stored previous smoothed score stays within [0, 100]
RangesOnMarkets ==
  /\ engine.previousStress >= 0
  /\ engine.previousStress <= 100 * Scale
  /\ out # Null =>
       /\ \A s \in SignalTypes : out.signals[s].value \in 0..100
       /\ out.stress.score \in 0..100

-----------------------------------------------------------------------------
(* Properties of the detector (under SpecDet) *)

RankOf(level) ==
  CASE level = "STABLE" -> 0
    [] level = "ELEVATED" -> 1
    [] level = "STRESSED" -> 2
    [] level = "UNSTABLE" -> 3
    [] level = "CRITICAL" -> 4

\* C9: an event is emitted exactly when the level's rank rose above the previous
\* level's rank and is at least 2, or the aligned count rose above the previous
\* count and the score is above 60.
C9_EventIff ==
  unitOut # Null =>
    ((unitOut.criticalEvent # Null) <=>
       \/ /\ RankOf(unitIn.stress.level) > RankOf(unitIn.previousLevel)
          /\ RankOf(unitIn.stress.level) >= 2
       \/ /\ unitIn.stress.signals_aligned > unitIn.previousSignalsAligned
          /\ unitIn.stress.score > 60)

C9_Witness ==
  /\ unitOut # Null
  /\ unitOut.criticalEvent # Null
  /\ unitIn.stress.level = unitIn.previousLevel
  /\ unitIn.stress.signals_aligned > unitIn.previousSignalsAligned

\* C10: the baseline a tick is compared with is the level and aligned count of
\* the tick before (STABLE and 0 on the first tick), whether or not that tick
\* emitted an event; so a tick that goes from STABLE to STRESSED with 2 aligned
\* signals emits an event, and a tick with the level and the aligned count of
\* the tick before emits none.
C10_BaselineIsPreviousTick ==
  [][unitIn' # unitIn =>
       /\ unitIn = Null =>
            /\ unitIn'.previousLevel = STABLE
            /\ unitIn'.previousSignalsAligned = 0
       /\ unitIn # Null =>
            /\ unitIn'.previousLevel = unitIn.stress.level
            /\ unitIn'.previousSignalsAligned = unitIn.stress.signals_aligned
            /\ (/\ unitIn.stress.level = STABLE
                /\ unitIn'.stress.level = STRESSED
                /\ unitIn'.stress.signals_aligned = 2) => unitOut'.criticalEvent # Null
            /\ (/\ unitIn'.stress.level = unitIn.stress.level
                /\ unitIn'.stress.signals_aligned = unitIn.stress.signals_aligned)
                 => unitOut'.criticalEvent = Null]_vars

C10_Witness ==
  /\ unitOut # Null
  /\ unitIn.previousLevel = ELEVATED
  /\ unitIn.stress.level = STRESSED
  /\ unitIn.stress.score = 65
  /\ unitIn.stress.signals_aligned = 2
  /\ unitIn.previousSignalsAligned = 2
  /\ unitOut.criticalEvent # Null

-----------------------------------------------------------------------------
(* Properties of the causal chain (under Spec) *)

\* the signals triggered on the tick that returned o
TriggeredIn(o) == {s \in SignalTypes : o.signals[s].triggered}

\* the steps of the chain the previous tick reported (none before the first tick)
StepsOf(o) == IF o = Null THEN <<>> ELSE o.causal.steps

\* C11: a tick with no triggered signal reports the chain inactive, with no step
\* and no catalyst, and leaves no trigger history; on the tick after it (as on
\* the first tick) every entry of the chain carries that tick's time.
C11_QuietTickDiscardsHistory ==
  [][ticks' = ticks + 1 =>
       /\ TriggeredIn(out') = {} =>
            /\ out'.causal.active = FALSE
            /\ out'.causal.steps = <<>>
            /\ out'.causal.catalyst_id = NullSignal
            /\ engine'.triggerOrder = <<>>
       /\ (out = Null \/ TriggeredIn(out) = {}) =>
            /\ Len(out'.causal.steps) = Cardinality(TriggeredIn(out'))
            /\ \A i \in 1..Len(out'.causal.steps) : out'.causal.steps[i].timestamp = clock'
            /\ \A i \in 1..Len(engine'.triggerOrder) : engine'.triggerOrder[i].timestamp = clock']_vars

\* the price and the depth of the k-th tick since construction or reset, as
\* the windows hold them
PriceAt(k) == engine.priceBuffer.buffer[k]

DepthAt(k) == engine.liquidityBuffer.buffer[k]

\* a selling tick, a calm tick, a selling tick: the flow signal is back in the
\* chain as its catalyst, with the time of its return
C11_Witness ==
  /\ ticks >= 3
  /\ PriceAt(ticks - 2) = Selling.price
  /\ PriceAt(ticks - 1) = Calm.price /\ DepthAt(ticks - 1) = Calm.total_depth
  /\ PriceAt(ticks) = Selling.price
  /\ Len(out.causal.steps) = 2
  /\ out.causal.catalyst_id = FLOW
  /\ \A i \in 1..Len(out.causal.steps) : out.causal.steps[i].timestamp = clock

\* C12: on a tick with a triggered signal, the entries whose signal is no longer
\* triggered are gone, the entries that stay keep their order and their
\* first-trigger timestamps, and the first entry that stays is step 1 and the
\* catalyst.
C12_ClearedEntriesRemoved ==
  [][(ticks' = ticks + 1 /\ TriggeredIn(out') # {}) =>
       LET Stays(t) == out'.signals[t.signal].triggered
           kept == SelectSeq(engine.triggerOrder, Stays)
           order == engine'.triggerOrder
           steps == out'.causal.steps
       IN  /\ Len(kept) <= Len(order)
           /\ SubSeq(order, 1, Len(kept)) = kept
           /\ \A i \in 1..Len(order) : out'.signals[order[i].signal].triggered
           /\ Len(steps) = Len(order)
           /\ \A i \in 1..Len(steps) :
                /\ steps[i].sequence_id = i
                /\ steps[i].signal = order[i].signal
                /\ steps[i].timestamp = order[i].timestamp
           /\ out'.causal.active
           /\ out'.causal.catalyst_id = order[1].signal
           /\ steps[1].type = "CATALYST"]_vars

\* a selling tick, a dump, a liquidity hole: flow and forced selling, first in
\* the chain, are gone, and liquidity is the catalyst with the time of the dump
C12_Witness ==
  /\ ticks >= 3
  /\ PriceAt(ticks - 2) = Selling.price
  /\ PriceAt(ticks - 1) = Dump.price
  /\ PriceAt(ticks) = Hole.price /\ DepthAt(ticks) = Hole.total_depth
  /\ Len(out.causal.steps) = 1
  /\ out.causal.catalyst_id = LIQUIDITY
  /\ out.causal.steps[1].type = "CATALYST"
  /\ out.causal.steps[1].timestamp = clock - 1

\* C13: entries that stay keep their relative order, and a signal that enters
\* the chain is placed after every entry that was present before the tick.
C13_FirstTriggerOrder ==
  [][(ticks' = ticks + 1 /\ TriggeredIn(out') # {}) =>
       LET old == StepsOf(out)
           new == out'.causal.steps
           Was(s) == \E a \in 1..Len(old) : old[a].signal = s
       IN  \A i, j \in 1..Len(new) :
             /\ (Was(new[i].signal) /\ ~Was(new[j].signal)) => i < j
             /\ \A a, b \in 1..Len(old) :
                  (a < b /\ old[a].signal = new[i].signal /\ old[b].signal = new[j].signal)
                    => i < j]_vars

\* two entries, the second of a later tick than the first, both of earlier ticks
C13_Witness ==
  /\ out # Null
  /\ Len(out.causal.steps) >= 2
  /\ out.causal.steps[1].timestamp < out.causal.steps[2].timestamp
  /\ out.causal.steps[2].timestamp < clock

-----------------------------------------------------------------------------
(* Properties of the aggregator *)

\* C14 (under SpecPure): two aggregations of the same four signal results and
\* the same previous score return the same StressScore and the same
\* DecisionTrace, field for field, whenever they are made.
C14_SameResult ==
  unitOut # Null =>
    /\ unitOut.first.stress = unitOut.second.stress
    /\ unitOut.first.trace = unitOut.second.trace

\* (under SpecPure) the two results differ in nothing but the time stamps and
\* the sample counts of the confidence reasons
SameApartFromClockAndWindows ==
  unitOut # Null =>
    /\ [unitOut.first.stress EXCEPT !.timestamp = 0]
         = [unitOut.second.stress EXCEPT !.timestamp = 0]
    /\ [unitOut.first.trace EXCEPT !.timestamp = 0, !.confidence_reasons = <<>>]
         = [unitOut.second.trace EXCEPT !.timestamp = 0, !.confidence_reasons = <<>>]
    /\ (unitOut.now = 0 /\ unitOut.samples = 0) => unitOut.first = unitOut.second

\* C15 (under SpecLiq): for finite depths no signal value is NaN.
C15_NoNaNValue == unitOut # Null => unitOut.signal.value # NaN

-----------------------------------------------------------------------------
(* Properties of the signal evaluators *)

\* C16 (under SpecFill): on each of the first 19 ticks after construction or
\* reset the volatility signal is the default signal, whatever the prices; from
\* the 20th tick on it is computed from the price window.
C16_VolatilityNeedsTwentyPrices ==
  out # Null =>
    LET vol == out.signals[VOLATILITY]
        prices == BufGetAll(engine.priceBuffer)
    IN  /\ Len(prices) = ticks
        /\ ticks <= 19 =>
             /\ vol.value = 0
             /\ vol.confidence = "LOW"
             /\ vol.triggered = FALSE
             /\ vol.severity = "STABLE"
             /\ vol.explanation = "Insufficient data."
        /\ ticks >= 20 =>
             /\ vol.explanation # "Insufficient data."
             /\ vol.value = VolatilityValue(RatioSquared(prices))
             /\ vol.triggered = VolatilityAbove(RatioSquared(prices), 55)

\* the 20th tick, with a price off the calm price, has a volatility value
C16_Witness ==
  /\ ticks = 20
  /\ ~wasReset
  /\ out.signals[VOLATILITY].value > 0

\* C17 (under SpecLiq): on the first tick, whatever its depth, and on any tick
\* where the mean of the window is 0, the liquidity signal has value 0 and is
\* not triggered.
C17_ZeroBaselineNoRisk ==
  (/\ unitOut # Null
   /\ \/ BufSize(unit.liquidityBuffer) = 1
      \/ SumSeq(unit.liquidityBuffer.buffer) = 0) =>
    /\ unitOut.signal.value = 0
    /\ unitOut.signal.triggered = FALSE
    /\ unitOut.signal.severity = "STABLE"

C17_Witness ==
  /\ unitOut # Null
  /\ BufSize(unit.liquidityBuffer) >= 2
  /\ SumSeq(unit.liquidityBuffer.buffer) = 0
  /\ unitIn.tick.total_depth = 0
  /\ unitOut.signal.value = 0

\* C18 (under SpecObs): a tick whose buy and sell volumes add up to 0 gets the
\* default order-flow signal, whatever the engine has seen before.
C18_ZeroVolumeDefaultFlow ==
  (/\ unitOut # Null
   /\ unitIn.tick.trades.buy_volume + unitIn.tick.trades.sell_volume = 0) =>
    /\ unitOut.signals[FLOW].value = 0
    /\ unitOut.signals[FLOW].confidence = "LOW"
    /\ unitOut.signals[FLOW].triggered = FALSE
    /\ unitOut.signals[FLOW].severity = "STABLE"
    /\ unitOut.signals[FLOW].explanation = "Insufficient data."
    /\ unitOut.signals[FLOW].timestamp = unitIn.tick.processing_timestamp

\* a tick without volume after ticks that left a score behind
C18_Witness ==
  /\ unitOut # Null
  /\ unitIn.tick.trades.buy_volume + unitIn.tick.trades.sell_volume = 0
  /\ unitOut.trace.previous_score > 0
  /\ unitOut.signals[FLOW].value = 0

\* C19 (under SpecAgg): the four contributions are value * weight and add up to
\* the raw score; pct_of_total is contribution / raw_score * 100 when the raw
\* score is above 0, so that the four add up to 100, and 0 when it is 0.
C19_ContributionsAddUp ==
  unitOut # Null =>
    LET wc == unitOut.trace.weight_contributions
        raw == unitOut.trace.raw_score
        weightOf(s) == CASE s = LIQUIDITY -> 35 [] s = FLOW -> 25
                         [] s = VOLATILITY -> 25 [] s = FORCED_SELLING -> 15
    IN  /\ Len(wc) = 4
        /\ {wc[i].signal : i \in 1..4} = SignalTypes
        /\ \A i \in 1..4 :
             /\ wc[i].raw_value = unitIn.signals[wc[i].signal].value
             /\ wc[i].contribution = wc[i].raw_value * weightOf(wc[i].signal)
             /\ wc[i].pct_of_total.den > 0
             /\ raw > 0 => wc[i].pct_of_total.num = wc[i].contribution * 100
             /\ raw = 0 => wc[i].pct_of_total.num = 0
        /\ wc[1].contribution + wc[2].contribution + wc[3].contribution + wc[4].contribution = raw
        /\ raw > 0 =>
             /\ \A i \in 1..4 : wc[i].pct_of_total.den = raw
             /\ wc[1].pct_of_total.num + wc[2].pct_of_total.num
                  + wc[3].pct_of_total.num + wc[4].pct_of_total.num = 100 * raw

C19_Witness ==
  /\ unitOut # Null
  /\ unitOut.trace.raw_score > 0
  /\ \A i \in 1..4 : unitOut.trace.weight_contributions[i].contribution > 0
  /\ unitOut.trace.weight_contributions[1].pct_of_total.num
       # unitOut.trace.weight_contributions[4].pct_of_total.num

-----------------------------------------------------------------------------
(* Properties of the emitted event (under SpecObs) *)

\* C20: an emitted event carries the score and the level of the tick's
\* StressScore, the catalyst of the tick's chain as primary factor, or
\* 'Unknown Catalyst' when the chain has none, and the signals of the chain's
\* steps in the order of the chain.
C20_EventIsSnapshot ==
  (unitOut # Null /\ unitOut.criticalEvent # Null) =>
    LET event == unitOut.criticalEvent
        steps == unitOut.causal.steps
    IN  /\ event.stress_score = unitOut.stress.score
        /\ event.level = unitOut.stress.level
        /\ event.timestamp = unitIn.tick.exchange_timestamp
        /\ event.price = unitIn.tick.price
        /\ Len(steps) > 0 =>
             /\ event.primary_factor = steps[1].signal
             /\ event.primary_factor = unitOut.causal.catalyst_id
        /\ Len(steps) = 0 =>
             /\ unitOut.causal.catalyst_id = NullSignal
             /\ event.primary_factor = "Unknown Catalyst"
        /\ Len(event.signals) = Len(steps)
        /\ \A i \in 1..Len(steps) : event.signals[i] = steps[i].signal
        /\ event.narrative = unitOut.causal.narrative

\* an event of a tick on which no signal is triggered: the score has risen
\* into STRESSED under signals that are each short of their threshold
C20_Witness ==
  /\ unitOut # Null
  /\ unitOut.criticalEvent # Null
  /\ unitOut.stress.signals_aligned = 0
  /\ unitOut.criticalEvent.primary_factor = "Unknown Catalyst"
  /\ unitOut.criticalEvent.level = "STRESSED"

-----------------------------------------------------------------------------
(* Properties of the causal chain's texts and types (under SpecObs) *)

\* C21: on a tick with an active chain step 1 is the only CATALYST, and every
\* other step is SYSTEMIC when the tick's score is above 70 and AMPLIFIER
\* otherwise, whatever type the step had on the tick before.
C21_StepTypesFollowScore ==
  unitOut.causal.active =>
    LET steps == unitOut.causal.steps
    IN  /\ Len(steps) >= 1
        /\ steps[1].type = "CATALYST"
        /\ \A i \in 2..Len(steps) :
             /\ steps[i].sequence_id = i
             /\ unitOut.stress.score > 70 => steps[i].type = "SYSTEMIC"
             /\ unitOut.stress.score <= 70 => steps[i].type = "AMPLIFIER"

\* an entry that was AMPLIFIER two ticks ago and SYSTEMIC on the tick before is
\* AMPLIFIER again: the score went above 70 and came back
C21_Witness ==
  /\ unitIn.before # Null
  /\ Len(unitOut.causal.steps) >= 2
  /\ Len(unitIn.before.causal.steps) >= 2
  /\ unitOut.causal.steps[2].signal = unitIn.before.causal.steps[2].signal
  /\ unitOut.causal.steps[2].timestamp = unitIn.before.causal.steps[2].timestamp
  /\ unitOut.causal.steps[1].timestamp < unitIn.before.trace.timestamp
  /\ unitOut.causal.steps[2].timestamp < unitIn.before.trace.timestamp
  /\ RoundDiv(unitIn.before.trace.previous_score, Scale) <= 70
  /\ unitIn.before.stress.score > 70
  /\ unitIn.before.causal.steps[2].type = "SYSTEMIC"
  /\ unitOut.stress.score <= 70
  /\ unitOut.causal.steps[2].type = "AMPLIFIER"

-----------------------------------------------------------------------------
(* Properties of the level and the fused confidence (under SpecAgg) *)

\* C22: the level of a tick is the bucket of the tick's smoothed score before
\* rounding, which is the score the engine carries to the next tick: below 25
\* STABLE, below 50 ELEVATED, below 75 STRESSED, below 90 UNSTABLE, otherwise
\* CRITICAL; the smoothed score is in 0..100, where the buckets do not overlap.
C22_LevelOfSmoothedScore ==
  unitOut # Null =>
    LET smoothed == unit.previousStress
        level == unitOut.stress.level
    IN  /\ 0 <= smoothed /\ smoothed <= 100 * Scale
        /\ level = "STABLE" <=> smoothed < 25 * Scale
        /\ level = "ELEVATED" <=> (25 * Scale <= smoothed /\ smoothed < 50 * Scale)
        /\ level = "STRESSED" <=> (50 * Scale <= smoothed /\ smoothed < 75 * Scale)
        /\ level = "UNSTABLE" <=> (75 * Scale <= smoothed /\ smoothed < 90 * Scale)
        /\ level = "CRITICAL" <=> 90 * Scale <= smoothed
        /\ unitOut.trace.audit_narrative.level = level

\* a smoothed score of 24.74: reported as 25 and STABLE
C22_Witness ==
  /\ unitOut # Null
  /\ unit.previousStress = 247400
  /\ unitOut.stress.score = 25
  /\ unitOut.stress.level = "STABLE"

\* C26: the fused confidence is HIGH when the four confidence ranks (LOW 1,
\* MEDIUM 2, HIGH 3) add up to 11 or more, MEDIUM when they add up to 7..10,
\* LOW when they add up to 4..6.
C26_FusedConfidence ==
  unitOut # Null =>
    LET rank(s) == CASE unitIn.signals[s].confidence = "HIGH" -> 3
                     [] unitIn.signals[s].confidence = "MEDIUM" -> 2
                     [] unitIn.signals[s].confidence = "LOW" -> 1
        sum == rank(LIQUIDITY) + rank(FLOW) + rank(VOLATILITY) + rank(FORCED_SELLING)
    IN  /\ sum >= 11 => unitOut.stress.confidence = "HIGH"
        /\ (7 <= sum /\ sum <= 10) => unitOut.stress.confidence = "MEDIUM"
        /\ sum <= 6 => unitOut.stress.confidence = "LOW"
        /\ unitOut.trace.audit_narrative.confidence = unitOut.stress.confidence

\* two HIGH and two MEDIUM add up to 10: an average of exactly 2.5
C26_Witness ==
  /\ unitOut # Null
  /\ unitIn.signals[LIQUIDITY].confidence = "HIGH"
  /\ unitIn.signals[FLOW].confidence = "HIGH"
  /\ unitIn.signals[VOLATILITY].confidence = "MEDIUM"
  /\ unitIn.signals[FORCED_SELLING].confidence = "MEDIUM"
  /\ unitOut.stress.confidence = "MEDIUM"

\* C30: the level of a tick is the bucket of the score reported for the tick,
\* the rounded one.
C30_LevelOfReportedScore ==
  unitOut # Null =>
    LET score == unitOut.stress.score
        level == unitOut.stress.level
    IN  /\ level = "STABLE" <=> score < 25
        /\ level = "ELEVATED" <=> (25 <= score /\ score < 50)
        /\ level = "STRESSED" <=> (50 <= score /\ score < 75)
        /\ level = "UNSTABLE" <=> (75 <= score /\ score < 90)
        /\ level = "CRITICAL" <=> 90 <= score

\* the text the score of the latest tick selects
TextOfScore ==
  IF unitOut.stress.score > 80 THEN "CRITICAL: Structural failure imminent."
  ELSE IF unitOut.stress.score > 60 THEN "UNSTABLE: Corrective action likely insufficient."
  ELSE "ELEVATED: Monitoring catalyst propagation."

\* C23, as stated: on every tick the chain's risk-assessment text is the one
\* the tick's score selects.
C23_TextByScoreAlone == unitOut.causal.risk_assessment = TextOfScore

\* C23, amended: on a tick with a triggered signal the chain's risk-assessment
\* text is the one the tick's score selects; on a tick with none the chain is
\* inactive and the text is empty, whatever the score.
C23_TextByScoreOnActiveChain ==
  /\ unitOut.causal.active <=> TriggeredIn(unitOut) # {}
  /\ unitOut.causal.active => unitOut.causal.risk_assessment = TextOfScore
  /\ ~unitOut.causal.active => unitOut.causal.risk_assessment = ""

\* an active chain under a score above 80, after a tick under a score of at most 80
C23_Witness ==
  /\ unitIn.before # Null
  /\ unitIn.before.causal.active
  /\ unitIn.before.stress.score <= 80
  /\ unitIn.before.causal.risk_assessment = "UNSTABLE: Corrective action likely insufficient."
  /\ unitOut.causal.active
  /\ unitOut.stress.score > 80
  /\ unitOut.causal.risk_assessment = "CRITICAL: Structural failure imminent."

-----------------------------------------------------------------------------
(* Properties of the liquidity evaluator (under SpecLiq) *)

\* C24: on tick k since construction the liquidity signal compares the tick's
\* depth with the mean of the last min(k, 300) depths, the tick's own included.
\* With a finite baseline above 0 the risk is 0 when the depth is at or above
\* the baseline and min(100, (baseline - depth) / baseline * 250) otherwise, the
\* value is the rounded risk, and the signal is triggered exactly when the risk
\* is above 60 (with a baseline of 0 the change counts as 0; with an infinite one
\* no comparison holds).  Confidence is HIGH from 60 samples, MEDIUM from 20,
\* LOW below.
C24_LiquidityAgainstWindowMean ==
  unitOut # Null =>
    LET k == Len(unitIn.depths)
        n == IF k < 300 THEN k ELSE 300
        window == SubSeq(unitIn.depths, k - n + 1, k)
        sum == SumSeq(window)
        current == unitIn.depths[k]
        below == sum - current * n
        sig == unitOut.signal
    IN  /\ current = unitIn.tick.total_depth
        /\ BufSize(unit.liquidityBuffer) = n
        /\ sig.confidence = (IF n >= 60 THEN "HIGH" ELSE IF n >= 20 THEN "MEDIUM" ELSE "LOW")
        /\ (sum <= MaxNumber /\ below <= 0) => (sig.value = 0 /\ ~sig.triggered)
        /\ sum = 0 => (sig.value = 0 /\ ~sig.triggered)
        /\ (sum <= MaxNumber /\ below > 0) =>
             /\ sig.triggered <=> below * 250 > 60 * sum
             /\ below * 250 >= 100 * sum => sig.value = 100
             /\ below * 250 < 100 * sum =>
                  /\ 2 * sum * sig.value - sum <= 500 * below
                  /\ 500 * below < 2 * sum * sig.value + sum
        /\ sum > MaxNumber => ~sig.triggered

\* tick 301: the window has dropped the first depth, and the tick's depth is
\* below the mean by less than 40 percent
C24_Witness ==
  /\ unitOut # Null
  /\ Len(unitIn.depths) = 301
  /\ unitIn.depths[300] = 0
  /\ unitOut.signal.value > 60
  /\ unitOut.signal.value < 100
  /\ unitOut.signal.triggered
  /\ unitOut.signal.confidence = "HIGH"

-----------------------------------------------------------------------------
(* Properties of the volatility evaluator (under SpecFill) *)

\* C25: once the price window holds 20 samples, the long-window deviation
\* that divides the short-window one is at least 1.
C25_LongDeviationAtLeastOne ==
  (out # Null /\ ticks >= VolatilityMinSamples) =>
    LET long == StdLongSquared(BufGetAll(engine.priceBuffer))
    IN  long.num >= long.den

-----------------------------------------------------------------------------
(* Properties of the decision trace (under SpecObs) *)

\* C27: the trace of a tick carries the score, the raw score and the aligned
\* count of the StressScore returned for the same tick; getLastTrace returns
\* the trace of the latest processTick and leaves the engine as it was.
C27_TraceLeavesScoringAlone ==
  [][/\ unitOut'.trace.final_score = unitOut'.stress.score
     /\ unitOut'.trace.raw_score = unitOut'.stress.raw_score
     /\ unitOut'.trace.signals_aligned = unitOut'.stress.signals_aligned
     /\ (unitIn.read = Null /\ unitIn'.read # Null) =>
          /\ unitIn'.read = unitOut.trace
          /\ unit'.liquidityBuffer = unit.liquidityBuffer
          /\ unit'.priceBuffer = unit.priceBuffer
          /\ unit'.volBuffer = unit.volBuffer
          /\ unit'.previousStress = unit.previousStress
          /\ unit'.previousLevel = unit.previousLevel
          /\ unit'.previousSignalsAligned = unit.previousSignalsAligned
          /\ unit'.triggerOrder = unit.triggerOrder
          /\ unit' = unit]_vars

\* getLastTrace has returned the trace of a tick that raised the score with
\* triggered signals, after an earlier tick
C27_Witness ==
  /\ unitIn.before # Null
  /\ unitIn.read # Null
  /\ unitIn.read = unitOut.trace
  /\ unitIn.read # unitIn.before.trace
  /\ unitOut.stress.score > 0
  /\ unitOut.stress.signals_aligned >= 2
  /\ unit.triggerOrder # <<>>

-----------------------------------------------------------------------------
(* Properties of the event ids (under SpecDet) *)

\* C28: an emitted event's id differs from the id of every event the same
\* engine has emitted before.
C28_EventIdsDiffer ==
  (unitOut # Null /\ unitOut.criticalEvent # Null) =>
    unitOut.criticalEvent.id \notin unitIn.emitted

-----------------------------------------------------------------------------
(* Properties of the window's statistics (under SpecSame) *)

\* C29: a window that was given one value v, once or more, has mean() = v and
\* standardDeviation() = 0; standardDeviation() is 0 for fewer than 2 items and
\* mean() is 0 for none.
C29_SameValueStatistics ==
  /\ BufSize(win) = 0 => BufMeanFloat(win) = 0
  /\ BufSize(win) < 2 => BufStandardDeviation(win) = 0
  /\ hist # <<>> =>
       /\ BufMeanFloat(win) = hist[1]
       /\ BufStandardDeviation(win) = 0

\* what does hold: the two statistics of a window of at most two equal items
StatisticsOfFewItems ==
  /\ BufSize(win) = 0 => BufMeanFloat(win) = 0
  /\ BufSize(win) < 2 => BufStandardDeviation(win) = 0
  /\ (hist # <<>> /\ BufSize(win) <= 2) =>
       /\ BufMeanFloat(win) = hist[1]
       /\ BufStandardDeviation(win) = 0

-----------------------------------------------------------------------------
(* Properties of the triggered flag (under SpecFlow) *)

\* C31: a signal is triggered exactly when its reported value is above its
\* threshold; for the order-flow signal, above 65.
C31_TriggeredMatchesValue ==
  unitOut # Null =>
    (unitOut.signal.triggered <=> unitOut.signal.value > FlowThreshold)

\* what does hold: a reported value above the threshold is a triggered signal,
\* and a triggered signal reports the threshold or more
TriggeredWithinRounding ==
  unitOut # Null =>
    /\ unitOut.signal.value > FlowThreshold => unitOut.signal.triggered
    /\ unitOut.signal.triggered => unitOut.signal.value >= FlowThreshold

-----------------------------------------------------------------------------
(* Properties of the reported chain (under Spec) *)

\* the place of a signal in the fixed order of signals
PlaceOf(s) == CHOOSE i \in 1..Len(SignalOrder) : SignalOrder[i] = s

\* C32: after every processTick the signals of the chain's steps are exactly
\* the signals triggered on that tick, none twice; the number of steps is
\* signals_aligned; the chain is active exactly when that number is above
\* zero; catalyst_id is the signal of step 1 when there is one; and the
\* sequence_id values are 1..n in step order.
C32_ChainMatchesTriggered ==
  out # Null =>
    LET steps == out.causal.steps
    IN  /\ {steps[i].signal : i \in 1..Len(steps)} = TriggeredIn(out)
        /\ \A i, j \in 1..Len(steps) : steps[i].signal = steps[j].signal => i = j
        /\ Len(steps) = out.stress.signals_aligned
        /\ out.causal.active <=> out.stress.signals_aligned > 0
        /\ Len(steps) > 0 => out.causal.catalyst_id = steps[1].signal
        /\ Len(steps) = 0 => out.causal.catalyst_id = NullSignal
        /\ \A i \in 1..Len(steps) : steps[i].sequence_id = i

\* a chain of long standing: at least two steps, one of them older than the
\* tick, and the steps not in the fixed order of signals
C32_Witness ==
  /\ out # Null
  /\ ticks >= 2
  /\ Len(out.causal.steps) >= 2
  /\ out.causal.active
  /\ out.causal.steps[1].timestamp < clock
  /\ \E i, j \in 1..Len(out.causal.steps) :
       /\ i < j
       /\ PlaceOf(out.causal.steps[i].signal) > PlaceOf(out.causal.steps[j].signal)

-----------------------------------------------------------------------------
(* Properties of the level of an event (under SpecDet) *)

\* C33: every emitted event carries the level STRESSED, UNSTABLE or CRITICAL,
\* the level of the tick that emitted it; no event is emitted on a tick whose
\* level is STABLE or ELEVATED, an event by alignment increase included.
C33_EventLevelAtLeastStressed ==
  (unitOut # Null /\ unitOut.criticalEvent # Null) =>
    /\ unitOut.criticalEvent.level \in {STRESSED, UNSTABLE, CRITICAL}
    /\ unitOut.criticalEvent.level = unitIn.stress.level

\* an event by alignment increase alone: the level is the one of the tick
\* before, STRESSED, and more signals are aligned
C33_Witness ==
  /\ unitOut # Null
  /\ unitOut.criticalEvent # Null
  /\ unitIn.previousLevel = STRESSED
  /\ unitOut.criticalEvent.level = STRESSED
  /\ unitIn.stress.signals_aligned > unitIn.previousSignalsAligned

-----------------------------------------------------------------------------
(* Properties of the first tick (under Spec) *)

\* C34: the first processTick after construction or after reset() emits no
\* event, reports the level STABLE and a score of at most 16, whatever the
\* tick holds.
C34_FirstTickIsStable ==
  (out # Null /\ ticks = 1) =>
    /\ out.criticalEvent = Null
    /\ out.stress.level = STABLE
    /\ out.stress.score <= 16

\* the first tick after a reset, a tick of heavy selling: two signals are
\* triggered and the score is 16
C34_Witness ==
  /\ out # Null
  /\ ticks = 1
  /\ wasReset
  /\ Cardinality(TriggeredIn(out)) = 2
  /\ out.stress.score = 16
  /\ out.criticalEvent = Null

-----------------------------------------------------------------------------
(* Properties of the decay (under SpecDecay) *)

\* the score is 0, the level STABLE and the chain inactive
Settled ==
  /\ unitOut # Null
  /\ unitOut.stress.score = 0
  /\ unitOut.stress.level = STABLE
  /\ unitOut.causal.active = FALSE

\* C35: when from some tick on every tick has four signals of value 0, none
\* triggered, the reported score eventually is 0 with level STABLE and an
\* inactive chain, and stays so; from any previous score of at most 100 that
\* is so from the 33rd tick on; the score never increases on the way, and no
\* event is emitted.
C35_QuietDecay ==
  /\ <>[]Settled
  /\ [](unitIn.count >= 33 => Settled)
  /\ [](unitOut # Null => /\ unitOut.stress.score <= unitIn.before
                          /\ unitOut.criticalEvent = Null)

\* the 33rd quiet tick after a score of 100: the score was 1 on the tick
\* before and is 0 now
C35_Witness ==
  /\ unitIn.start = 100 * Scale
  /\ unitIn.count = 33
  /\ unitIn.before = 1
  /\ Settled

-----------------------------------------------------------------------------
(* Properties of simultaneous triggers (under SpecChain) *)

\* the signals the trigger history held before the call
HeldBefore == {unitIn.triggerOrder[i].signal : i \in 1..Len(unitIn.triggerOrder)}

\* the signals triggered on the call that the history did not hold
NewlyTriggered ==
  {s \in SignalTypes : unitIn.signals[s].triggered /\ s \notin HeldBefore}

\* C36: the signals that become triggered on one tick, none of them in the
\* chain before, enter it in the fixed order Liquidity Fragility, Order Flow
\* Imbalance, Volatility Regime Shift, Forced Selling; when no older entry
\* stays, the catalyst is the first of them in that order, whatever their
\* values and severities.
C36_SimultaneousTriggersInFixedOrder ==
  unitOut # Null =>
    LET steps == unitOut.causal.steps
    IN  /\ \A i, j \in 1..Len(steps) :
             (i < j /\ steps[j].signal \in NewlyTriggered) =>
               \/ steps[i].signal \in HeldBefore
               \/ PlaceOf(steps[i].signal) < PlaceOf(steps[j].signal)
        /\ (NewlyTriggered # {} /\ \A s \in HeldBefore : ~unitIn.signals[s].triggered) =>
             /\ unitOut.causal.catalyst_id \in NewlyTriggered
             /\ \A s \in NewlyTriggered :
                  PlaceOf(unitOut.causal.catalyst_id) <= PlaceOf(s)

\* two signals triggered at once on an empty history: the catalyst is the
\* earlier in the fixed order, though its value and severity are the lower
C36_Witness ==
  /\ unitOut # Null
  /\ unitIn.triggerOrder = <<>>
  /\ Len(unitOut.causal.steps) >= 2
  /\ unitIn.signals[unitOut.causal.catalyst_id].value = 60
  /\ unitOut.causal.steps[1].signal = unitOut.causal.catalyst_id
  /\ unitIn.signals[unitOut.causal.steps[2].signal].value = 100
  /\ unitOut.causal.steps[1].severity # unitOut.causal.steps[2].severity

-----------------------------------------------------------------------------
(* Properties of the fused confidence during warm-up (under SpecConf) *)

\* C37: on the first 49 processTick calls after construction or reset the
\* fused confidence is not HIGH, whatever the ticks hold; the 50th call is
\* the earliest that can report HIGH.
C37_NoHighConfidenceBeforeFiftiethTick ==
  (out # Null /\ ticks < VolatilityHighSamples) => out.stress.confidence # HIGH

\* the 50th tick, a tick of heavy trading: liquidity MEDIUM and the three
\* others HIGH make the fused confidence HIGH
C37_Witness ==
  /\ out # Null
  /\ ticks = VolatilityHighSamples
  /\ out.stress.confidence = HIGH
  /\ out.signals[LIQUIDITY].confidence = MEDIUM
  /\ out.signals[VOLATILITY].confidence = HIGH

-----------------------------------------------------------------------------
(* Properties of the live feed (under SpecFeed) *)

\* C38: once stop() has returned, the tick callback is not invoked again
\* unless start() is called after that stop(), in every interleaving of
\* start(), stop(), the end of the clock sync and the emit timer.
C38_NoTickAfterStop == unitOut.callsAfterStop = 0

\* C39: once stop() has returned, no socket is opened and none stays open
\* unless start() is called again, a reconnect timer set before stop()
\* included; and at every moment each stream has at most one open socket.
C39_NoSocketAfterStop ==
  /\ unitOut.opensAfterStop = 0
  /\ unitOut.stopped => \A s \in Streams : OpenSockets(unit, unitIn, s) = 0
  /\ \A s \in Streams : OpenSockets(unit, unitIn, s) <= 1

====
